---- MODULE Spec2Model ----
(***************************************************************************)
(* Model of the voxvault real-time transcription core.                     *)
(*                                                                         *)
(* Part 1: the utterance accumulator (audio/processor.rs, AudioProcessor). *)
(* A sample is an integer amplitude in thousandths of full scale           *)
(* (8 = 0.008, 950 = 0.95).  The accumulator's configuration is a set of   *)
(* struct fields fixed by the constructor; durations are given to the      *)
(* constructor in sample periods of the 16 kHz target rate so that small   *)
(* windows can be explored exhaustively.                                   *)
(*                                                                         *)
(* Part 2: the capture source (audio/capture.rs, AudioCapture) with the    *)
(* bounded channel and the pump's receive (bin/cli.rs).  The device        *)
(* callback is modelled pass by pass of its loop, interleaved with the     *)
(* pump.  Each device frame carries its arrival number as its sample.      *)
(*                                                                         *)
(* Part 3: the engine lifecycle (voxtral/engine.rs, VoxtralEngine).  An    *)
(* Option is a sequence: <<>> for None, <<v>> for Some(v).                 *)
(*                                                                         *)
(* Part 4: the streaming decoder (voxtral/streaming.rs), step by step: one  *)
(* step per chunk start, per pass of the decode loop and per chunk end, so *)
(* that the partial callbacks are seen between the steps.  A text is a     *)
(* sequence of one-character strings.                                      *)
(*                                                                         *)
(* Part 5: the transcript bus (server/websocket.rs): the broadcast channel, *)
(* the pump's sends and one subscriber's forwarding task.  An event is     *)
(* identified by its number in the pump's output.                          *)
(*                                                                         *)
(* Part 6: the session driver and the pump task (bin/cli.rs main), which    *)
(* put the parts together; here the bus is the list of events sent to it.  *)
(*                                                                         *)
(* Each part has its own specification (Spec, SpecCapture, SpecEngine,     *)
(* SpecDecoder, SpecBus, SpecSession); the other parts stay as constructed *)
(* in it.                                                                  *)
(***************************************************************************)
EXTENDS Integers, Sequences, FiniteSets, TLC

\* ------------------------------------------------------------------ bounds
\* Longest chunk (in samples, before resampling) handed to feed.
MaxChunkLen == 2
\* feed is not explored further once accumulated holds this many samples.
MaxAccLen == 6
\* Longest run of consecutive silent chunks that is explored.
MaxSilence == 3

\* Frames the input device delivers in all (each frame carries its arrival
\* number), and frames it hands to one callback.
MaxFrames == 34
MaxCallbackFrames == 2
\* Streams that one capture source builds (successful starts).
MaxStreams == 2
\* Times the engine reads the tokenizer file (loads that pass the
\* already-loaded check).
MaxLoads == 4
\* Passes of the decode loop explored for one chunk (the encoder returns at
\* most PREFIX_LEN + 1 + MaxDecodeSteps positions).
MaxDecodeSteps == 2
\* Events the broadcast channel stores in all, and events the pump sends
\* while nobody is subscribed.
MaxStored == 258
MaxUnheard == 3
\* Chunks waiting in the capture channel of a session.
MaxQueued == 1
\* the windows the pump has handled are counted up to this number
MaxWindows == 1

\* --------------------------------------------------------- program constants
\* processor.rs:50  let target_sample_rate = 16000;
target_sample_rate == 16000
\* processor.rs:201 default speech threshold 0.005, in thousandths.
speech_threshold == 5
\* processor.rs:168 buffer.peak_normalize(0.95), in thousandths.
NormalizePeak == 950
\* cli.rs:98  mpsc::channel(32)
ChannelCapacity == 32
\* engine.rs:54  delay: 6
delay == 6
\* streaming.rs:27-30
PREFIX_LEN == 38
BOS_TOKEN == 1
STREAMING_PAD == 32
TEXT_TOKEN_OFFSET == 1000
\* websocket.rs:88  broadcast::channel(256)
BusCapacity == 256

\* ------------------------------------------------------------------- inputs
\* Sample amplitudes fed to the accumulator: quiet (0.001) and loud (-0.008).
Amps == {1, -8}
\* Device sample rates of the fed chunks.
Rates == {16000, 8000, 32000}

SeqsUpTo(S, n) == UNION {[1..k -> S] : k \in 0..n}

\* capture.rs:13-17  struct AudioChunk { samples, sample_rate }
AudioChunk == [samples : SeqsUpTo(Amps, MaxChunkLen), sample_rate : Rates]

\* Constructor arguments that are explored: (min, max) window in sample
\* periods, silence pause in ms, chunk duration in ms.
Configs ==
    { [min |-> 2, max |-> 3, silence_pause_ms |-> 1000, buffer_ms |-> 500],
      [min |-> 3, max |-> 5, silence_pause_ms |-> 300, buffer_ms |-> 500] }
\* Default input configurations of the capture device that are explored
\* (sample rate in Hz, interleaved channels), and chunk durations in ms: the
\* chunk sizes they give are 0, 1 and 2 frames (2500 / 1000 rounds down).
Devices ==
    { [sample_rate |-> 1000, channels |-> 1],
      [sample_rate |-> 2500, channels |-> 2] }
BufferDurations == {0, 1}
\* Where a load can fail (engine.rs:74-83), and the load times in ms it can
\* measure.
LoadFailures == {"none", "tokenizer", "open", "model"}
ElapsedMs == {0, 3}
\* Texts the model decodes from a window.
Texts == {"", "hello"}
\* Token ids the model predicts: the padding control token, and three text
\* tokens (a space, the letter a, and a byte sequence that is not valid
\* UTF-8 on its own).
Tokens ==
    {STREAMING_PAD, TEXT_TOKEN_OFFSET, TEXT_TOKEN_OFFSET + 1,
     TEXT_TOKEN_OFFSET + 2}
\* Positions the audio encoder returns for one chunk.
SeqLens == (PREFIX_LEN - 1)..(PREFIX_LEN + 1 + MaxDecodeSteps)
\* Samples in the window handed to the streaming transcribe, and chunks a
\* window is split into (one when it needs no chunking).
AudioLens == {0, 1}
ChunkCounts == {1, 2}
\* A session: the input device (16 kHz mono) and the chunk duration in ms
\* (chunks of 16 samples); the accumulator windows in samples (one to two
\* chunks, and a maximum duration of 0); the amplitudes the device delivers
\* a chunk of; the positions the encoder returns for a window.
SessionDevice == [sample_rate |-> 16000, channels |-> 1]
SessionBufferMs == 1
SessionConfigs ==
    { [min |-> 16, max |-> 32, silence_pause_ms |-> 1, buffer_ms |-> 1],
      [min |-> 0, max |-> 0, silence_pause_ms |-> 1, buffer_ms |-> 1] }
SessionSeqLens == {PREFIX_LEN - 1, PREFIX_LEN + 2}
\* The events the pump sends for three windows in turn, over and over: two
\* partials and the final transcript; one partial and an error; a final
\* transcript alone.
WindowScript ==
    << <<"partial", "partial", "final">>, <<"partial", "error">>,
       <<"final">> >>

VARIABLES
    \* AudioProcessor fields (processor.rs:10-33)
    accumulated, pre_roll, silence_count, has_speech,
    min_samples, max_samples, silence_pause_chunks,
    \* outcome of the last operation: what it returned, and what it observed
    ret,
    \* history: a speech chunk was absorbed since the last yield or reset
    speech_seen,
    \* history: how many samples at the head of accumulated were fed before
    \* the most recent yield
    carried,
    \* history: consecutive silent chunks absorbed since the last speech chunk
    silent_run,
    \* history, kept while from_fresh holds (every chunk absorbed since the
    \* accumulator was last in its constructed state is accounted for): the
    \* latest silent chunk absorbed before the first speech chunk, and the
    \* samples of every chunk absorbed from the first speech chunk on
    lead, body, from_fresh,
    \* the input device's default configuration (capture.rs:97-104) and the
    \* chunk duration the driver passes to new() and start() (cli.rs:100,104)
    device, buffer_duration_ms,
    \* AudioCapture.stream (capture.rs:21), and whether the AudioCapture
    \* value still exists (it is gone once dropped, capture.rs:227-231)
    stream, capture_alive,
    \* what the stream's callback closure holds (capture.rs:107-110)
    buffer_size, buf,
    \* where the device callback is: "idle" between invocations, "loop" at
    \* the test of the while loop of process_samples (capture.rs:214)
    cb_pc,
    \* the chunks in the bounded channel between callback and pump
    \* (cli.rs:98)
    chan,
    \* how many frames the device has delivered so far, and how many
    \* streams have been built on it
    frames_in, streams,
    \* history: how many mono samples have left the callback's buffer, in the
    \* chunks drained from it or with the buffer when its stream was dropped
    consumed,
    \* outcome of the last step of the capture source or the pump
    cap_ret,
    \* history: first samples of the chunks dropped on a full channel
    dropped,
    \* history: the highest first sample among the chunks the pump has
    \* received
    recv_high,
    \* VoxtralEngine's loaded state (engine.rs:33-36): <<>> is None, <<v>> is
    \* Some(v)
    model, tokenizer, mel_extractor, t_embed,
    \* history: how many times the tokenizer file and the model file were
    \* read
    tokenizer_reads, model_reads,
    \* outcome of the last engine operation
    eng_ret,
    \* where the streaming transcribe is: "idle" (not running), "chunk" (at
    \* the head of the for loop over chunks, streaming.rs:104), "loop" (at
    \* the head of the decode loop, streaming.rs:207), "done" (returning)
    dec_pc,
    \* audio.samples.len() of the window (streaming.rs:79), how many chunks
    \* it was split into (streaming.rs:85-100) and how many of them the for
    \* loop has finished
    audio_len, chunks, chunk_idx,
    \* locals of decode_streaming (streaming.rs:142, 181-186, 207)
    seq_len, pos, generated, text_token_ids, last_decoded_len,
    \* how many positions decoder_cache holds, of the seq_len it was
    \* allocated for (streaming.rs:165-172, 213-217), and the index into
    \* audio_slices the loop used last (streaming.rs:211; <<>> for none)
    cache_len, slice_idx,
    \* local of transcribe (streaming.rs:102)
    texts,
    \* what the streaming transcribe returns (streaming.rs:123-129 or an
    \* error)
    result,
    \* history: the calls of on_partial for the current window, in order:
    \* the text passed and the chunk being decoded
    partials,
    \* history: prefills and decode steps run for the current window
    prefills, steps,
    \* outcome of the last decoder step
    dec_ret,
    \* how many events the pump has sent to the bus (cli.rs:126, 138, 146)
    emitted,
    \* the broadcast channel (websocket.rs:88): the events it retains, oldest
    \* first, and the position after the newest
    ring, tail,
    \* the subscriber's forwarding task (websocket.rs:130-184): "none" before
    \* the connection, "open" while it runs, "closed" after it; the position
    \* its receiver reads next; the last event it forwarded to the socket
    \* (<<>> for none)
    rx_state, rx_next, rx_last,
    \* history: events sent while nobody was subscribed
    unheard,
    \* history: the events the receiver has reported as skipped (the n of
    \* its Lagged results) since the last event it yielded
    skipped,
    \* the pump task is running its loop (cli.rs:112-151)
    pump_alive,
    \* outcome of the last bus step
    bus_ret,
    \* where main is (cli.rs:61-170): "start" (before the Loading status),
    \* "loading" (before engine.load), "loaded" (before the Ready status),
    \* "ready" (before the capture is built and started), "running" (waiting
    \* for ctrl-c, the pump task spawned), "stopped" (capture.stop() done),
    \* "down" (tasks aborted, main returned Ok), "exit" (main returned Err)
    drv_pc,
    \* the status events sent so far, in order
    statuses,
    \* the pump's local audio_buffer (cli.rs:115): <<>> outside the if
    audio_buffer,
    \* the transcript and error events sent to the bus for the current
    \* window, by the partial callback and by the pump, in order
    events,
    \* process_handle.abort() was called (cli.rs:165)
    aborted,
    \* the server task (cli.rs:75-79, websocket.rs:101-113): "spawned" before
    \* it has bound the port, "listening" while it serves, "failed" after
    \* run returned the bind error, "aborted" after ws_handle.abort()
    ws_pc,
    \* history: how many windows the pump has handled to the end
    \* (cli.rs:130-149), counted up to MaxWindows
    windows,
    \* the last step of main or of the pump
    ses_ret

accVars == <<accumulated, pre_roll, silence_count, has_speech>>
cfgVars == <<min_samples, max_samples, silence_pause_chunks>>
histVars == <<speech_seen, carried, silent_run, lead, body, from_fresh>>
processorVars == <<accVars, cfgVars, ret, histVars>>
captureVars == <<device, buffer_duration_ms, stream, capture_alive,
                 buffer_size, buf, cb_pc, chan, frames_in, streams, consumed,
                 cap_ret,
                 dropped, recv_high>>
engineVars == <<model, tokenizer, mel_extractor, t_embed, tokenizer_reads,
                model_reads, eng_ret>>
decoderVars == <<dec_pc, audio_len, chunks, chunk_idx, seq_len, pos,
                 generated, text_token_ids, last_decoded_len, cache_len,
                 slice_idx, texts, result, partials, prefills, steps,
                 dec_ret>>
busVars == <<emitted, ring, tail, rx_state, rx_next, rx_last, unheard,
            skipped, pump_alive,
             bus_ret>>
pumpVars ==
    <<drv_pc, statuses, audio_buffer, aborted, ws_pc, windows, ses_ret>>
sessionVars == <<pumpVars, events>>
vars == <<processorVars, captureVars, engineVars, decoderVars, busVars,
          sessionVars>>
\* what the operations of one component leave alone
outsideProcessor ==
    <<captureVars, engineVars, decoderVars, busVars, sessionVars>>
outsideCapture ==
    <<processorVars, engineVars, decoderVars, busVars, sessionVars>>
outsideEngine ==
    <<processorVars, captureVars, decoderVars, busVars, sessionVars>>
outsideDecoder == <<processorVars, captureVars, busVars, pumpVars>>
outsideBus ==
    <<processorVars, captureVars, engineVars, decoderVars, sessionVars>>

Min(a, b) == IF a <= b THEN a ELSE b
Max(a, b) == IF a >= b THEN a ELSE b
Abs(x) == IF x < 0 THEN -x ELSE x

\* ------------------------------------------------------- pure helper functions
RECURSIVE SumSq(_)
\* processor.rs:77  samples.iter().map(|&s| s * s).sum()
SumSq(samples) ==
    IF samples = <<>> THEN 0
    ELSE Head(samples) * Head(samples) + SumSq(Tail(samples))

\* processor.rs:73-79 and :98.  energy = sqrt(sum_sq / n) >= threshold, decided
\* exactly on the squares; an empty chunk has energy 0.0.
EnergyAtLeast(samples, threshold) ==
    IF samples = <<>> THEN 0 >= threshold
    ELSE threshold <= 0 \/ SumSq(samples) >= threshold * threshold * Len(samples)

IsSpeech(samples) == EnergyAtLeast(samples, speech_threshold)

\* processor.rs:86  resample_to_16k(&buffer): the output has len * 16000 / rate
\* samples, each taken from the input position it falls on.
resample_to_16k(samples, rate) ==
    LET n == (Len(samples) * target_sample_rate) \div rate
    IN  [i \in 1..n |-> samples[((i - 1) * rate) \div target_sample_rate + 1]]

RECURSIVE Peak(_)
Peak(samples) ==
    IF samples = <<>> THEN 0
    ELSE Max(Abs(Head(samples)), Peak(Tail(samples)))

\* processor.rs:168  buffer.peak_normalize(0.95): scale so that the largest
\* absolute sample becomes the target; an all-zero window is left as it is.
peak_normalize(samples, target) ==
    LET peak == Peak(samples)
    IN  IF peak = 0 THEN samples
        ELSE [i \in 1..Len(samples) |->
                 IF samples[i] < 0 THEN -((-samples[i] * target) \div peak)
                 ELSE (samples[i] * target) \div peak]

\* processor.rs:166  AudioBuffer::new(samples, self.target_sample_rate)
AudioBufferNew(samples, rate) == [samples |-> samples, sample_rate |-> rate]

NoBuffer == AudioBufferNew(<<>>, 0)

\* ------------------------------------------------- accumulator state as a value
\* The four mutable fields of AudioProcessor.
Acc(a, p, c, h) ==
    [accumulated |-> a, pre_roll |-> p, silence_count |-> c, has_speech |-> h]

Self == Acc(accumulated, pre_roll, silence_count, has_speech)

\* processor.rs:180-185  reset
ResetState(st) == Acc(<<>>, <<>>, 0, FALSE)

\* Variant of TakeLen without the cap: the whole accumulation is drained.
TakeLenUncapped(st) == Len(st.accumulated)

\* processor.rs:158  take_len = accumulated.len().min(max_samples)
TakeLen(st) == Min(Len(st.accumulated), max_samples)

\* processor.rs:159  what accumulated.drain(..take_len) leaves behind
AfterDrain(st) ==
    SubSeq(st.accumulated, TakeLen(st) + 1, Len(st.accumulated))

\* Variant of BufferRate: the buffer is labelled with a device rate.
BufferRateOfDevice(st) == CHOOSE r \in Rates : r # target_sample_rate

\* processor.rs:166  the sample rate the yielded buffer is labelled with
BufferRate(st) == target_sample_rate

\* Variant of take_buffer that normalizes to full scale (1.0).
TakeBufferFullScale(st) ==
    LET samples == SubSeq(st.accumulated, 1, TakeLen(st))
    IN  [st     |-> Acc(AfterDrain(st), <<>>, 0, FALSE),
         some   |-> TRUE,
         raw    |-> samples,
         buffer |-> AudioBufferNew(peak_normalize(samples, 1000),
                                   BufferRate(st))]

\* processor.rs:156-177  take_buffer: the state it leaves and the buffer it
\* returns (raw = the drained samples before normalization).
take_buffer(st) ==
    LET samples == SubSeq(st.accumulated, 1, TakeLen(st))
    IN  [st     |-> Acc(AfterDrain(st), <<>>, 0, FALSE),
         some   |-> TRUE,
         raw    |-> samples,
         buffer |-> AudioBufferNew(peak_normalize(samples, NormalizePeak),
                                   BufferRate(st))]

Nothing(st) == [st |-> st, some |-> FALSE, raw |-> <<>>, buffer |-> NoBuffer]

\* Variant of AbsorbSpeech that forgets to prepend the pre-roll.
AbsorbSpeechNoPreRoll(st, samples) ==
    Acc(st.accumulated \o samples, <<>>, 0, TRUE)

\* processor.rs:100-109  speech branch
AbsorbSpeech(st, samples) ==
    LET prepend == ~st.has_speech /\ st.pre_roll # <<>>
    IN  Acc(IF prepend THEN st.accumulated \o st.pre_roll \o samples
                       ELSE st.accumulated \o samples,
            IF prepend THEN <<>> ELSE st.pre_roll,
            0,
            TRUE)

\* Variant of AbsorbSilence that accumulates silence before any speech.
AbsorbSilenceAlways(st, samples) ==
    Acc(st.accumulated \o samples, st.pre_roll, st.silence_count + 1,
        st.has_speech)

\* processor.rs:110-128  silence branch, up to the early return
AbsorbSilence(st, samples) ==
    IF st.has_speech
    THEN Acc(st.accumulated \o samples, st.pre_roll, st.silence_count + 1, TRUE)
    ELSE Acc(st.accumulated, samples, st.silence_count + 1, FALSE)

\* processor.rs:97-128  the state once the chunk has been absorbed
Absorb(st, samples) ==
    IF IsSpeech(samples) THEN AbsorbSpeech(st, samples)
    ELSE AbsorbSilence(st, samples)

\* Variant of PauseReached that does not wait for min_samples.
PauseReachedNoMin(st) ==
    st.has_speech /\ st.silence_count >= silence_pause_chunks

\* processor.rs:119-120 and :136-138  natural pause
PauseReached(st) ==
    /\ st.has_speech
    /\ Len(st.accumulated) >= min_samples
    /\ st.silence_count >= silence_pause_chunks

\* processor.rs:131  hard limit
MaxReached(st) == Len(st.accumulated) >= max_samples

\* processor.rs:97-144  feed, after resampling succeeded.  The early return of
\* line 122 is taken in the silence branch with has_speech set; lines 131-141
\* follow for every chunk that did not return early.
FeedSamples(st, samples) ==
    LET mid == Absorb(st, samples)
        early == /\ ~IsSpeech(samples)
                 /\ st.has_speech
                 /\ mid.silence_count >= silence_pause_chunks
                 /\ Len(mid.accumulated) >= min_samples
    IN  IF early THEN take_buffer(mid)
        ELSE IF MaxReached(mid) THEN take_buffer(mid)
        ELSE IF PauseReached(mid) THEN take_buffer(mid)
        ELSE Nothing(mid)

\* processor.rs:84-95  the samples at the target rate
Resampled(chunk) ==
    IF chunk.sample_rate # target_sample_rate
    THEN resample_to_16k(chunk.samples, chunk.sample_rate)
    ELSE chunk.samples

\* Variant of FeedResampleFailed that counts the lost chunk as silence.
FeedResampleFailedAsSilence(st) ==
    [st |-> Acc(st.accumulated, st.pre_roll, st.silence_count + 1, st.has_speech),
     some |-> FALSE, raw |-> <<>>, buffer |-> NoBuffer]

\* processor.rs:88-91  Err(e) => return None
FeedResampleFailed(st) == Nothing(st)

\* processor.rs:83-144  feed
feed(st, chunk, resample_ok) ==
    IF chunk.sample_rate # target_sample_rate /\ ~resample_ok
    THEN FeedResampleFailed(st)
    ELSE FeedSamples(st, Resampled(chunk))

\* Variant of FlushYields that ignores has_speech.
FlushYieldsAnyAudio(st) == st.accumulated # <<>>

\* processor.rs:148  the guard of flush
FlushYields(st) == ~(st.accumulated = <<>> \/ ~st.has_speech)

\* Variant of flush that returns None without resetting.
FlushNoReset(st) ==
    IF ~FlushYields(st) THEN [st |-> st, some |-> FALSE, raw |-> <<>>,
                              buffer |-> NoBuffer]
    ELSE take_buffer(st)

\* processor.rs:147-153  flush
flush(st) ==
    IF ~FlushYields(st) THEN Nothing(ResetState(st))
    ELSE take_buffer(st)


\* ------------------------------------------------------------------ actions
\* What an operation reports: its name, the sample rate of the chunk it was
\* given (0 when it takes none), whether it returned Some(buffer), the
\* buffer (and the drained samples before normalization), whether resampling
\* failed, the accumulator as it was once the chunk had been absorbed (for
\* flush and reset: as it was when called), and the history at that point.
Outcome(op, rate, out, failed, mid, seen, run, fed) ==
    [op     |-> op,
     rate   |-> rate,
     some   |-> out.some,
     buffer |-> out.buffer,
     raw    |-> out.raw,
     failed |-> failed,
     mid    |-> mid,
     seen   |-> seen,
     run    |-> run,
     fresh  |-> from_fresh,
     fed    |-> fed,
     stale  |-> IF out.some THEN Min(carried, Len(out.raw)) ELSE 0]

\* processor.rs:43-70  AudioProcessor::new
New(cfg) ==
    /\ min_samples = cfg.min
    /\ max_samples = cfg.max
    /\ silence_pause_chunks = cfg.silence_pause_ms \div Max(cfg.buffer_ms, 1)
    /\ accumulated = <<>>
    /\ pre_roll = <<>>
    /\ silence_count = 0
    /\ has_speech = FALSE


\* ----------------------------------------------------------- capture source
\* The part of an AudioCapture that start and stop change: the stream, and
\* the chunk size and sample buffer its callback closure owns.
Cap(s, n, b) == [stream |-> s, buffer_size |-> n, buf |-> b]

CapSelf == Cap(stream, buffer_size, buf)

\* capture.rs:54  stream: None
CapStopped == Cap("None", 0, <<>>)

\* capture.rs:107  (sample_rate * buffer_duration_ms) / 1000
BufferSize(sample_rate, ms) == (sample_rate * ms) \div 1000

\* Variant of start without the already-running check.
StartNoRunningCheck(c, dev, ms, dev_ok) ==
    IF ~dev_ok THEN [c |-> c, ok |-> FALSE]
    ELSE [c  |-> Cap("Some", BufferSize(dev.sample_rate, ms), <<>>),
          ok |-> TRUE]

\* capture.rs:92-177  start: fails when a stream is held (93-95), fails when
\* the device refuses (97-100, 162-168: dev_ok false), else builds and plays
\* a stream whose closure owns a fresh buffer.
start(c, dev, ms, dev_ok) ==
    IF c.stream = "Some" THEN [c |-> c, ok |-> FALSE]
    ELSE IF ~dev_ok THEN [c |-> c, ok |-> FALSE]
    ELSE [c  |-> Cap("Some", BufferSize(dev.sample_rate, ms), <<>>),
          ok |-> TRUE]

\* Variant of stop that keeps the stream.
StopKeepsStream(c) == c

\* capture.rs:180-185  stop: take the stream and drop it (the closure and
\* its buffer go with it).
stop(c) == IF c.stream = "Some" THEN CapStopped ELSE c

\* The interleaved data of n frames that follow frame number `first`: every
\* channel of a frame carries the frame's arrival number.
DeviceData(first, n, channels) ==
    [i \in 1..(n * channels) |-> first + ((i - 1) \div channels) + 1]

RECURSIVE SumSeq(_)
SumSeq(q) == IF q = <<>> THEN 0 ELSE Head(q) + SumSeq(Tail(q))

\* capture.rs:202-209  downmix to mono by averaging each frame
Downmix(data, channels) ==
    IF channels = 1 THEN data
    ELSE [j \in 1..((Len(data) + channels - 1) \div channels) |->
            SumSeq(SubSeq(data, (j - 1) * channels + 1,
                          Min(j * channels, Len(data)))) \div channels]

\* Variant of the loop test that leaves a full chunk in the buffer.
LoopTestStrict(b, n) == Len(b) > n

\* capture.rs:214  while buf.len() >= buffer_size
LoopTest(b, n) == Len(b) >= n

\* capture.rs:215-219  the chunk made of the first buffer_size samples
DrainedChunk(b, n, rate) ==
    [samples |-> SubSeq(b, 1, n), sample_rate |-> rate]

\* Variant of AfterChunk that empties the buffer.
AfterChunkClears(b, n) == <<>>

\* capture.rs:215  what buf.drain(..buffer_size) leaves
AfterChunk(b, n) == SubSeq(b, n + 1, Len(b))

\* Variant of try_send that queues the chunk whatever the channel holds.
TrySendUnbounded(ch, chunk) == [chan |-> Append(ch, chunk), ok |-> TRUE]

\* capture.rs:221  sender.try_send(chunk) on the channel of cli.rs:98: the
\* chunk is queued when fewer than ChannelCapacity chunks are waiting, and
\* refused otherwise.
try_send(ch, chunk) ==
    IF Len(ch) < ChannelCapacity
    THEN [chan |-> Append(ch, chunk), ok |-> TRUE]
    ELSE [chan |-> ch, ok |-> FALSE]

\* Variant of recv that takes the newest chunk.
RecvNewest(ch) ==
    [chunk |-> ch[Len(ch)], chan |-> SubSeq(ch, 1, Len(ch) - 1)]

\* cli.rs:113  audio_rx.recv() on a channel that holds a chunk
recv(ch) == [chunk |-> Head(ch), chan |-> Tail(ch)]

\* A chunk is identified by its first sample (0 for an empty chunk).
Key(chunk) == IF chunk.samples = <<>> THEN 0 ELSE chunk.samples[1]

NoChunk == [samples |-> <<>>, sample_rate |-> 0]

\* What a step of the capture source or the pump reports: its name, whether
\* it succeeded (start, try_send), whether a stream was held and how many
\* chunks the channel held when it began, the highest first sample received
\* before it, and the chunk it sent, dropped or received.
CapOutcome(op, ok, chunk) ==
    [op         |-> op,
     ok         |-> ok,
     running    |-> stream = "Some",
     len_before |-> Len(chan),
     high       |-> recv_high,
     chunk      |-> chunk]

\* capture.rs:28-56  AudioCapture::new on device dev, with the channel of
\* cli.rs:98 empty and the device silent so far
AudioCaptureNew(dev, ms) ==
    /\ device = dev
    /\ buffer_duration_ms = ms
    /\ stream = "None"
    /\ capture_alive = TRUE
    /\ buffer_size = 0
    /\ buf = <<>>
    /\ cb_pc = "idle"
    /\ chan = <<>>
    /\ frames_in = 0
    /\ consumed = 0
    /\ streams = 0
    /\ dropped = {}
    /\ recv_high = 0
    /\ cap_ret = CapOutcome("new", TRUE, NoChunk)

\* A capture source as constructed, where the capture source is not the
\* component that is exercised.
DefaultCapture ==
    AudioCaptureNew([sample_rate |-> 1000, channels |-> 1], 1)

\* ------------------------------------------------------------------- engine
\* The loaded state of a VoxtralEngine (engine.rs:33-36).
Eng(m, t, mel, te) ==
    [model |-> m, tokenizer |-> t, mel_extractor |-> mel, t_embed |-> te]

EngSelf == Eng(model, tokenizer, mel_extractor, t_embed)

\* engine.rs:49-52  all four None
EngIdle == Eng(<<>>, <<>>, <<>>, <<>>)

\* engine.rs:60-62  is_loaded
is_loaded(e) == e.model # <<>>

\* What load, unload and transcribe report: the operation, whether it
\* returned Ok, the value or text returned, the error, the engine it was
\* called on and the file reads counted before it.
EngOutcome(op, ok, value, msg) ==
    [op     |-> op,
     ok     |-> ok,
     value  |-> value,
     error  |-> msg,
     before |-> EngSelf,
     reads  |-> <<tokenizer_reads, model_reads>>]

\* Variant of load without the already-loaded check.
LoadAlways(e, fail, elapsed, treads, mreads) ==
    IF fail = "tokenizer"
    THEN [e |-> e, ok |-> FALSE, value |-> 0,
          error |-> "Failed to load tokenizer",
          treads |-> treads + 1, mreads |-> mreads]
    ELSE IF fail \in {"open", "model"}
    THEN [e |-> e, ok |-> FALSE, value |-> 0,
          error |-> "Failed to load Q4 model",
          treads |-> treads + 1, mreads |-> mreads + 1]
    ELSE [e |-> Eng(<<mreads + 1>>, <<treads + 1>>, <<"voxtral">>, <<delay>>),
          ok |-> TRUE, value |-> elapsed, error |-> "",
          treads |-> treads + 1, mreads |-> mreads + 1]

\* Variant of load that assigns each resource as soon as it is built.
LoadStepwise(e, fail, elapsed, treads, mreads) ==
    IF is_loaded(e)
    THEN [e |-> e, ok |-> TRUE, value |-> 0, error |-> "",
          treads |-> treads, mreads |-> mreads]
    ELSE IF fail = "tokenizer"
    THEN [e |-> e, ok |-> FALSE, value |-> 0,
          error |-> "Failed to load tokenizer",
          treads |-> treads + 1, mreads |-> mreads]
    ELSE IF fail = "open"
    THEN [e |-> [e EXCEPT !.tokenizer = <<treads + 1>>], ok |-> FALSE,
          value |-> 0, error |-> "Failed to open GGUF file",
          treads |-> treads + 1, mreads |-> mreads + 1]
    ELSE IF fail = "model"
    THEN [e |-> [e EXCEPT !.tokenizer = <<treads + 1>>], ok |-> FALSE,
          value |-> 0, error |-> "Failed to load Q4 model",
          treads |-> treads + 1, mreads |-> mreads + 1]
    ELSE [e |-> Eng(<<mreads + 1>>, <<treads + 1>>, <<"voxtral">>, <<delay>>),
          ok |-> TRUE, value |-> elapsed, error |-> "",
          treads |-> treads + 1, mreads |-> mreads + 1]

\* engine.rs:65-99  load: Ok(0) at once when loaded (66-68); else read the
\* tokenizer (74-75), open and load the model (79-83), build the mel
\* extractor and the time embedding (86-88), and only then assign the four
\* fields (92-95).  A loaded tokenizer or model is identified by the number
\* of the read that produced it.
load(e, fail, elapsed, treads, mreads) ==
    IF is_loaded(e)
    THEN [e |-> e, ok |-> TRUE, value |-> 0, error |-> "",
          treads |-> treads, mreads |-> mreads]
    ELSE IF fail = "tokenizer"
    THEN [e |-> e, ok |-> FALSE, value |-> 0,
          error |-> "Failed to load tokenizer",
          treads |-> treads + 1, mreads |-> mreads]
    ELSE IF fail = "open"
    THEN [e |-> e, ok |-> FALSE, value |-> 0,
          error |-> "Failed to open GGUF file",
          treads |-> treads + 1, mreads |-> mreads + 1]
    ELSE IF fail = "model"
    THEN [e |-> e, ok |-> FALSE, value |-> 0,
          error |-> "Failed to load Q4 model",
          treads |-> treads + 1, mreads |-> mreads + 1]
    ELSE [e |-> Eng(<<mreads + 1>>, <<treads + 1>>, <<"voxtral">>, <<delay>>),
          ok |-> TRUE, value |-> elapsed, error |-> "",
          treads |-> treads + 1, mreads |-> mreads + 1]

\* Variant of unload that keeps the tokenizer.
UnloadKeepsTokenizer(e) == Eng(<<>>, e.tokenizer, <<>>, <<>>)

\* engine.rs:102-108  unload
unload(e) == EngIdle

\* Variant of MissingResource that finds every resource present.
NoResourceMissing(e) == ""

\* engine.rs:112-115, 219-222  the resource transcribe finds missing first
MissingResource(e) ==
    IF e.model = <<>> THEN "Model not loaded"
    ELSE IF e.tokenizer = <<>> THEN "Tokenizer not loaded"
    ELSE IF e.mel_extractor = <<>> THEN "Mel extractor not loaded"
    ELSE IF e.t_embed = <<>> THEN "Time embedding not loaded"
    ELSE ""

\* engine.rs:111-164  transcribe(&self, audio): an error when a resource is
\* missing or when the mel computation or the decoding fails (infer_ok
\* false), else the text the model decoded.
transcribe(e, infer_ok, text) ==
    IF MissingResource(e) # ""
    THEN [ok |-> FALSE, value |-> "", error |-> MissingResource(e)]
    ELSE IF ~infer_ok
    THEN [ok |-> FALSE, value |-> "", error |-> "Failed to decode tokens"]
    ELSE [ok |-> TRUE, value |-> text, error |-> ""]

\* ------------------------------------------------------------------- events
\* websocket.rs:31-46  TranscriptMessage::transcript
transcript(text, is_final, rtf) ==
    [msg_type |-> "transcript", text |-> text, is_final |-> is_final,
     rtf |-> rtf]

\* websocket.rs:49-58  TranscriptMessage::status
status(text) ==
    [msg_type |-> "status", text |-> text, is_final |-> FALSE, rtf |-> <<>>]

\* websocket.rs:61-70  TranscriptMessage::error
error(text) ==
    [msg_type |-> "error", text |-> text, is_final |-> FALSE, rtf |-> <<>>]

\* cli.rs:120-129  the closure the pump passes as on_partial: the event it
\* sends for a partial text, with no rtf.
on_partial(text) == transcript(text, FALSE, <<>>)

\* -------------------------------------------------------- streaming decoder
\* The text the tokenizer gives one token id; the control tokens decode to
\* their names.
Piece(t) ==
    IF t = TEXT_TOKEN_OFFSET THEN <<" ">>
    ELSE IF t = TEXT_TOKEN_OFFSET + 1 THEN <<"a">>
    ELSE IF t = BOS_TOKEN THEN <<"<s>">>
    ELSE IF t = STREAMING_PAD THEN <<"[PAD]">>
    ELSE <<>>

RECURSIVE Concat(_)
Concat(ids) ==
    IF ids = <<>> THEN <<>> ELSE Piece(Head(ids)) \o Concat(Tail(ids))

\* streaming.rs:191, 229, 247  tokenizer.decode(ids): an error when the bytes
\* of the tokens are not valid UTF-8, else the concatenated text.
Decode(ids) ==
    IF \E i \in 1..Len(ids) : ids[i] = TEXT_TOKEN_OFFSET + 2
    THEN [ok |-> FALSE, text |-> <<>>]
    ELSE [ok |-> TRUE, text |-> Concat(ids)]

RECURSIVE TrimStart(_)
TrimStart(t) ==
    IF t # <<>> /\ Head(t) = " " THEN TrimStart(Tail(t)) ELSE t

RECURSIVE TrimEnd(_)
TrimEnd(t) ==
    IF t # <<>> /\ t[Len(t)] = " "
    THEN TrimEnd(SubSeq(t, 1, Len(t) - 1))
    ELSE t

\* str::trim (streaming.rs:110, 192, 230)
Trim(t) == TrimEnd(TrimStart(t))

RECURSIVE Join(_)
\* streaming.rs:114  texts.join(" ")
Join(ts) ==
    IF ts = <<>> THEN <<>>
    ELSE IF Len(ts) = 1 THEN ts[1]
    ELSE ts[1] \o <<" ">> \o Join(Tail(ts))

\* streaming.rs:151-152  prefix = [BOS] + [STREAMING_PAD] * 37
Prefix == [i \in 1..PREFIX_LEN |-> IF i = 1 THEN BOS_TOKEN ELSE STREAMING_PAD]

\* Variant of TooShort that accepts every encoding.
TooShortNever(sl) == FALSE

\* streaming.rs:144  seq_len < PREFIX_LEN
TooShort(sl) == sl < PREFIX_LEN

\* What the handling of one generated token gives: the text tokens so far,
\* the length of the last partial, the text passed to on_partial (none or
\* one) and the token lists handed to the tokenizer (none or one).
TokenOutcome(ids, last, emit, handed) ==
    [ids |-> ids, last |-> last, emit |-> emit, handed |-> handed]

\* Variant of FirstTokenPartial without the text-token test.
FirstTokenPartialAnyToken(ids, last, token) ==
    LET ids1 == Append(ids, token)
        decoded == Decode(ids1)
        trimmed == Trim(decoded.text)
    IN  IF decoded.ok /\ trimmed # <<>>
        THEN TokenOutcome(ids1, Len(trimmed), <<trimmed>>, <<ids1>>)
        ELSE TokenOutcome(ids1, last, <<>>, <<ids1>>)

\* streaming.rs:189-198  the first generated token: a text token is kept and
\* the text so far decoded; a non-empty trimmed text is passed to on_partial.
FirstTokenPartial(ids, last, token) ==
    IF token >= TEXT_TOKEN_OFFSET
    THEN LET ids1 == Append(ids, token)
             decoded == Decode(ids1)
             trimmed == Trim(decoded.text)
         IN  IF decoded.ok /\ trimmed # <<>>
             THEN TokenOutcome(ids1, Len(trimmed), <<trimmed>>, <<ids1>>)
             ELSE TokenOutcome(ids1, last, <<>>, <<ids1>>)
    ELSE TokenOutcome(ids, last, <<>>, <<>>)

\* Variant of NextTokenPartial that passes every non-empty text on.
NextTokenPartialNoGrowthTest(ids, last, token) ==
    IF token >= TEXT_TOKEN_OFFSET
    THEN LET ids1 == Append(ids, token)
             decoded == Decode(ids1)
             trimmed == Trim(decoded.text)
         IN  IF decoded.ok /\ trimmed # <<>>
             THEN TokenOutcome(ids1, Len(trimmed), <<trimmed>>, <<ids1>>)
             ELSE TokenOutcome(ids1, last, <<>>, <<ids1>>)
    ELSE TokenOutcome(ids, last, <<>>, <<>>)

\* streaming.rs:227-236  a later generated token: a text token is kept and
\* the text so far decoded; the trimmed text is passed to on_partial when it
\* is longer than the last partial.
NextTokenPartial(ids, last, token) ==
    IF token >= TEXT_TOKEN_OFFSET
    THEN LET ids1 == Append(ids, token)
             decoded == Decode(ids1)
             trimmed == Trim(decoded.text)
         IN  IF decoded.ok /\ Len(trimmed) > last
             THEN TokenOutcome(ids1, Len(trimmed), <<trimmed>>, <<ids1>>)
             ELSE TokenOutcome(ids1, last, <<>>, <<ids1>>)
    ELSE TokenOutcome(ids, last, <<>>, <<>>)

\* Variant of AudioIndex that does not allow for the prefix.
AudioIndexNoPrefix(p) == p - 1

\* streaming.rs:211  audio_slices[pos - 1 - PREFIX_LEN]
AudioIndex(p) == p - 1 - PREFIX_LEN

\* streaming.rs:201-203  audio_slices has one element for each position
\* of PREFIX_LEN..seq_len: its indices
AudioSlices(sl) == 0..(sl - PREFIX_LEN - 1)

\* Variant of FinalTokens that keeps the control tokens.
FinalTokensUnfiltered(gen) == SubSeq(gen, PREFIX_LEN + 1, Len(gen))

\* streaming.rs:240-245  the generated tokens after the prefix that are text
\* tokens
FinalTokens(gen) ==
    SelectSeq(SubSeq(gen, PREFIX_LEN + 1, Len(gen)),
              LAMBDA t : t >= TEXT_TOKEN_OFFSET)

\* engine.rs:199-203  decode_tokens: the generated tokens that are handed to
\* the tokenizer
DecodeTokensInput(gen) == SelectSeq(gen, LAMBDA t : t >= 1000)

\* Token sequences the model's own streaming inference returns
\* (engine.rs:147).
GeneratedSeqs == SeqsUpTo(Tokens \cup {BOS_TOKEN}, 1 + MaxDecodeSteps)

\* Variant of Rtf that always gives a value.
RtfAlways(len) == <<"elapsed/duration">>

\* streaming.rs:116-121  rtf: a value when the audio has a duration
Rtf(len) == IF len > 0 THEN <<"elapsed/duration">> ELSE <<>>

\* streaming.rs:123-129  Ok(TranscriptResult { text, is_final: true, rtf })
Ok(text, rtf) ==
    [ok |-> TRUE, text |-> text, is_final |-> TRUE, rtf |-> rtf,
     error |-> ""]

\* an Err(msg) returned by the streaming transcribe
Err(msg) ==
    [ok |-> FALSE, text |-> <<>>, is_final |-> FALSE, rtf |-> <<>>,
     error |-> msg]

\* What one decoder step reports: the step, the position count the encoder
\* returned (chunk start), whether the prefill ran, the texts passed to
\* on_partial and the token lists handed to the tokenizer in the step, and
\* the texts collected before it.
DecOutcome(op, sl, prefill, emit, handed) ==
    [op |-> op, seq_len |-> sl, prefill |-> prefill, emit |-> emit,
     handed |-> handed, texts |-> texts, chunk |-> chunk_idx]

\* No streaming transcribe is running.
DecoderIdle ==
    /\ dec_pc = "idle"
    /\ audio_len = 0
    /\ chunks = 0
    /\ chunk_idx = 0
    /\ seq_len = 0
    /\ pos = 0
    /\ generated = <<>>
    /\ text_token_ids = <<>>
    /\ last_decoded_len = 0
    /\ cache_len = 0
    /\ slice_idx = <<>>
    /\ texts = <<>>
    /\ result = Err("")
    /\ partials = <<>>
    /\ prefills = 0
    /\ steps = 0
    /\ dec_ret = [op |-> "none", seq_len |-> 0, prefill |-> FALSE,
                  emit |-> <<>>, handed |-> <<>>, texts |-> <<>>,
                  chunk |-> 0]

\* ------------------------------------------------------------ transcript bus
\* The events of WindowScript in sending order: the window within the script
\* (from 0), the place within the window (from 1) and the kind.
ScriptEvents ==
    LET ev(w) == [i \in 1..Len(WindowScript[w]) |->
                     [window |-> w - 1, idx |-> i,
                      kind |-> WindowScript[w][i]]]
    IN  ev(1) \o ev(2) \o ev(3)

\* cli.rs:120-147  the n-th event (from 0) that the pump sends: its window,
\* its place among the window's events and its kind.
EventAt(n) ==
    LET k == ScriptEvents[(n % Len(ScriptEvents)) + 1]
    IN  [seq |-> n,
         window |-> (n \div Len(ScriptEvents)) * Len(WindowScript) + k.window,
         idx |-> k.idx,
         kind |-> k.kind]

\* cli.rs:126, 138, 146  sender.send(msg) on the broadcast channel: an error,
\* the event being lost, when there is no receiver; else the event is
\* stored, the oldest one making room when BusCapacity are retained.
bus_send(r, t, receivers, n) ==
    IF receivers = 0
    THEN [ring |-> r, tail |-> t, ok |-> FALSE]
    ELSE [ring |-> Append(IF Len(r) >= BusCapacity THEN Tail(r) ELSE r, n),
          tail |-> t + 1, ok |-> TRUE]

\* Variant of CanSend in which a send waits while the channel is full of
\* events the receiver has not read yet.
CanSendWhenRead(r, t, receivers, next) ==
    receivers = 0 \/ Len(r) < BusCapacity \/ next > t - Len(r)

\* cli.rs:126, 138, 146  sender.send(msg) is a plain call, not awaited: it
\* returns at once, wherever the receivers stand.
CanSend(r, t, receivers, next) == TRUE

\* Variant of AfterSend in which the pump task ends when a send fails.
AfterSendFailing(ok) == ok

\* cli.rs:126, 138, 146  let _ = sender.send(msg): the result is discarded
\* and the pump goes on.
AfterSend(ok) == TRUE

\* websocket.rs:131  state.tx.subscribe(): the receiver starts at the tail.
subscribe(t) == t

\* Variant of bus_recv that hands out the newest retained event.
BusRecvNewest(r, t, next) ==
    IF next = t
    THEN [kind |-> "empty", event |-> <<>>, next |-> next, n |-> 0]
    ELSE [kind |-> "ok", event |-> <<r[Len(r)]>>, next |-> next + 1,
          n |-> 0]

\* websocket.rs:136  rx.recv(): nothing while the receiver is at the tail;
\* Lagged(n) when the event at its position is no longer retained, the
\* receiver moving to the oldest retained event; else the event at its
\* position.
bus_recv(r, t, next) ==
    IF next = t
    THEN [kind |-> "empty", event |-> <<>>, next |-> next, n |-> 0]
    ELSE IF next < t - Len(r)
    THEN [kind |-> "lagged", event |-> <<>>, next |-> t - Len(r),
          n |-> t - Len(r) - next]
    ELSE [kind |-> "ok", event |-> <<r[next - (t - Len(r)) + 1]>>,
          next |-> next + 1, n |-> 0]

\* Variant of AfterLagged that ends the forwarding task.
AfterLaggedCloses(n) == "closed"

\* websocket.rs:152-154  the Lagged(n) arm only logs the count: the loop of
\* handle_socket goes on, the task stays as it is.
AfterLagged(n) == "open"

\* What one bus step reports: the step, the event sent or forwarded (<<>> for
\* none), the events skipped, and the event the subscriber had last been
\* forwarded before the step.
BusOutcome(op, event, n) ==
    [op |-> op, event |-> event, n |-> n, prev |-> rx_last]

\* websocket.rs:86-92  TranscriptServer::new, nobody connected
TranscriptServerNew ==
    /\ emitted = 0
    /\ ring = <<>>
    /\ tail = 0
    /\ rx_state = "none"
    /\ rx_next = 0
    /\ rx_last = <<>>
    /\ unheard = 0
    /\ skipped = 0
    /\ pump_alive = TRUE
    /\ bus_ret = [op |-> "new", event |-> <<>>, n |-> 0, prev |-> <<>>]

\* ----------------------------------------------------------------- session
\* The rtf the pump gives the final event: that of the result.
FinalRtf(res) == res.rtf

\* Variant of ResultEvents that sends nothing for a failed window.
ResultEventsSilentError(res) ==
    IF res.ok
    THEN IF res.text # <<>>
         THEN <<transcript(res.text, TRUE, FinalRtf(res))>>
         ELSE <<>>
    ELSE <<>>

\* cli.rs:130-147  the events the pump sends for the result of a window: the
\* final transcript for an Ok with a non-empty text, nothing for an Ok with
\* an empty text, an error event for an Err.
ResultEvents(res) ==
    IF res.ok
    THEN IF res.text # <<>>
         THEN <<transcript(res.text, TRUE, FinalRtf(res))>>
         ELSE <<>>
    ELSE <<error(res.error)>>

\* Variant of AfterLoad that goes on after a failed load.
AfterLoadIgnoringFailure(ok) == "loaded"

\* cli.rs:93  engine.load().context(..)? : main returns the error of a failed
\* load.
AfterLoad(ok) == IF ok THEN "loaded" ELSE "exit"

\* What a step of main or of the pump reports: the step and whether it
\* succeeded.
SesOutcome(op, ok) == [op |-> op, ok |-> ok]

\* cli.rs:61-83  main before the Loading status, the server task at ws
SessionAt(ws) ==
    /\ drv_pc = "start"
    /\ statuses = <<>>
    /\ audio_buffer = <<>>
    /\ events = <<>>
    /\ aborted = FALSE
    /\ ws_pc = ws
    /\ windows = 0
    /\ ses_ret = SesOutcome("new", TRUE)

\* cli.rs:72-79  the server is built and its task spawned, not yet run
SessionNew == SessionAt("spawned")

\* engine.rs:45-57  VoxtralEngine::new
VoxtralEngineNew ==
    /\ model = <<>>
    /\ tokenizer = <<>>
    /\ mel_extractor = <<>>
    /\ t_embed = <<>>
    /\ tokenizer_reads = 0
    /\ model_reads = 0
    /\ eng_ret = EngOutcome("new", TRUE, 0, "")

\* An accumulator as constructed from one of the configurations cfgs, with
\* an empty history.
ProcessorInit(cfgs) ==
    /\ \E cfg \in cfgs : New(cfg)
    /\ speech_seen = FALSE
    /\ carried = 0
    /\ silent_run = 0
    /\ lead = <<>>
    /\ body = <<>>
    /\ from_fresh = TRUE
    /\ ret = Outcome("new", 0, Nothing(Self), FALSE, Self, FALSE, 0, <<>>)

Init ==
    /\ ProcessorInit(Configs)
    /\ DefaultCapture
    /\ VoxtralEngineNew
    /\ DecoderIdle
    /\ TranscriptServerNew
    /\ SessionNew

Store(st) ==
    /\ accumulated' = st.accumulated
    /\ pre_roll' = st.pre_roll
    /\ silence_count' = st.silence_count
    /\ has_speech' = st.has_speech

\* History after an operation that returned `out`: a yield, a flush and a
\* reset start a new window.
NewWindow(out) ==
    /\ speech_seen' = FALSE
    /\ carried' = Len(out.st.accumulated)
    /\ lead' = <<>>
    /\ body' = <<>>
    /\ from_fresh' = (out.st = ResetState(out.st))

\* History once a chunk has been absorbed without a yield.
SameWindow(seen, lead1, body1) ==
    /\ speech_seen' = seen
    /\ lead' = lead1
    /\ body' = body1
    /\ UNCHANGED <<carried, from_fresh>>

\* processor.rs:83-144  feed(chunk) with a chunk that needs no resampling or
\* whose resampling succeeds
Feed(chunk) ==
    /\ Len(accumulated) < MaxAccLen
    /\ \E samples \in {Resampled(chunk)} :
       \E speech \in {IsSpeech(samples)} :
       \E out \in {feed(Self, chunk, TRUE)} :
       \E seen \in {speech_seen \/ speech} :
       \E run \in {IF speech THEN 0 ELSE silent_run + 1} :
       \E lead1 \in {IF from_fresh /\ ~seen THEN samples ELSE lead} :
       \E body1 \in {IF from_fresh /\ seen THEN body \o samples ELSE body} :
          /\ speech \/ silent_run < MaxSilence
          /\ Store(out.st)
          /\ ret' = Outcome("feed", chunk.sample_rate, out, FALSE,
                            Absorb(Self, samples), seen, run, lead1 \o body1)
          /\ silent_run' = run
          /\ IF out.some THEN NewWindow(out)
             ELSE SameWindow(seen, lead1, body1)
          /\ UNCHANGED <<cfgVars, outsideProcessor>>

\* processor.rs:84-91  feed(chunk) with a chunk whose resampling fails
FeedResampleError(chunk) ==
    /\ chunk.sample_rate # target_sample_rate
    /\ \E out \in {feed(Self, chunk, FALSE)} :
          /\ Store(out.st)
          /\ ret' = Outcome("feed", chunk.sample_rate, out, TRUE, Self,
                            speech_seen, silent_run, lead \o body)
          /\ UNCHANGED <<cfgVars, histVars, outsideProcessor>>

\* processor.rs:147-153  flush()
Flush ==
    \E out \in {flush(Self)} :
       /\ Store(out.st)
       /\ ret' = Outcome("flush", 0, out, FALSE, Self, speech_seen, silent_run,
                         lead \o body)
       /\ NewWindow(out)
       /\ UNCHANGED <<cfgVars, silent_run, outsideProcessor>>

\* processor.rs:180-185  reset()
Reset ==
    \E out \in {Nothing(ResetState(Self))} :
       /\ Store(out.st)
       /\ ret' = Outcome("reset", 0, out, FALSE, Self, speech_seen, silent_run,
                         lead \o body)
       /\ NewWindow(out)
       /\ UNCHANGED <<cfgVars, silent_run, outsideProcessor>>

Next ==
    \/ \E chunk \in AudioChunk : Feed(chunk)
    \/ \E chunk \in AudioChunk : FeedResampleError(chunk)
    \/ Flush
    \/ Reset

Spec == Init /\ [][Next]_vars

\* --------------------------------------------------- capture source actions
StoreCap(c) ==
    /\ stream' = c.stream
    /\ buffer_size' = c.buffer_size
    /\ buf' = c.buf

\* capture.rs:92-177  start(buffer_duration_ms), called by the driver with
\* the chunk duration it gave to new (cli.rs:100,104); dev_ok tells whether
\* the device accepts the configuration, the stream and play().
Start(dev_ok) ==
    /\ capture_alive
    /\ \E out \in {start(CapSelf, device, buffer_duration_ms, dev_ok)} :
          /\ out.ok => streams < MaxStreams
          /\ StoreCap(out.c)
          /\ streams' = IF out.ok THEN streams + 1 ELSE streams
          /\ cap_ret' = CapOutcome("start", out.ok, NoChunk)
    /\ UNCHANGED <<device, buffer_duration_ms, capture_alive, cb_pc, chan,
                   frames_in, consumed, dropped, recv_high, outsideCapture>>

\* capture.rs:180-185  stop(); dropping the stream waits for a callback in
\* progress to return.
Stop ==
    /\ capture_alive
    /\ cb_pc = "idle"
    /\ StoreCap(stop(CapSelf))
    /\ consumed' = consumed + Len(buf)
    /\ cap_ret' = CapOutcome("stop", TRUE, NoChunk)
    /\ UNCHANGED <<device, buffer_duration_ms, capture_alive, cb_pc, chan,
                   frames_in, streams, dropped, recv_high, outsideCapture>>

\* capture.rs:227-231  drop of the AudioCapture, which calls stop()
Drop ==
    /\ capture_alive
    /\ cb_pc = "idle"
    /\ StoreCap(stop(CapSelf))
    /\ consumed' = consumed + Len(buf)
    /\ capture_alive' = FALSE
    /\ cap_ret' = CapOutcome("drop", TRUE, NoChunk)
    /\ UNCHANGED <<device, buffer_duration_ms, cb_pc, chan, frames_in,
                   streams, dropped, recv_high, outsideCapture>>

\* capture.rs:194-212  process_samples is entered with the next n frames of
\* the device: downmix, lock the buffer, append.
Callback(n) ==
    /\ stream = "Some"
    /\ cb_pc = "idle"
    /\ frames_in + n <= MaxFrames
    /\ buf' = buf \o Downmix(DeviceData(frames_in, n, device.channels),
                             device.channels)
    /\ frames_in' = frames_in + n
    /\ cb_pc' = "loop"
    /\ cap_ret' = CapOutcome("callback", TRUE, NoChunk)
    /\ UNCHANGED <<consumed, device, buffer_duration_ms, stream, capture_alive,
                   buffer_size, chan, streams, dropped, recv_high,
                   outsideCapture>>

\* capture.rs:214-224  one pass of the while loop: drain a chunk, try to
\* send it, and drop it when the channel refuses it.
CallbackSend ==
    /\ cb_pc = "loop"
    /\ LoopTest(buf, buffer_size)
    /\ \E chunk \in {DrainedChunk(buf, buffer_size, device.sample_rate)} :
       \E out \in {try_send(chan, chunk)} :
          /\ buf' = AfterChunk(buf, buffer_size)
          /\ consumed' = consumed + Len(chunk.samples)
          /\ chan' = out.chan
          /\ cap_ret' = CapOutcome("send", out.ok, chunk)
          /\ dropped' = IF out.ok THEN dropped
                        ELSE dropped \cup {Key(chunk)}
    /\ UNCHANGED <<device, buffer_duration_ms, stream, capture_alive,
                   buffer_size, cb_pc, frames_in, streams, recv_high,
                   outsideCapture>>

\* capture.rs:214,225  the loop test fails and process_samples returns
CallbackReturn ==
    /\ cb_pc = "loop"
    /\ ~LoopTest(buf, buffer_size)
    /\ cb_pc' = "idle"
    /\ cap_ret' = CapOutcome("return", TRUE, NoChunk)
    /\ UNCHANGED <<device, buffer_duration_ms, stream, capture_alive,
                   buffer_size, buf, chan, frames_in, consumed, streams,
                   dropped, recv_high, outsideCapture>>

\* cli.rs:113  the pump receives the next chunk (what it does with the
\* chunk is the accumulator's feed)
Recv ==
    /\ chan # <<>>
    /\ \E out \in {recv(chan)} :
          /\ chan' = out.chan
          /\ cap_ret' = CapOutcome("recv", TRUE, out.chunk)
          /\ recv_high' = Max(recv_high, Key(out.chunk))
    /\ UNCHANGED <<device, buffer_duration_ms, stream, capture_alive,
                   buffer_size, buf, cb_pc, frames_in, consumed, streams,
                   dropped, outsideCapture>>

InitCapture ==
    /\ ProcessorInit({[min |-> 2, max |-> 3, silence_pause_ms |-> 1000,
                       buffer_ms |-> 500]})
    /\ \E dev \in Devices : \E ms \in BufferDurations :
          AudioCaptureNew(dev, ms)
    /\ VoxtralEngineNew
    /\ DecoderIdle
    /\ TranscriptServerNew
    /\ SessionNew

NextCapture ==
    \/ \E dev_ok \in BOOLEAN : Start(dev_ok)
    \/ Stop
    \/ Drop
    \/ \E n \in 0..MaxCallbackFrames : Callback(n)
    \/ CallbackSend
    \/ CallbackReturn
    \/ Recv

SpecCapture == InitCapture /\ [][NextCapture]_vars

\* The audio thread keeps running a callback it has entered.
SpecCaptureFair ==
    /\ SpecCapture
    /\ WF_vars(CallbackSend)
    /\ WF_vars(CallbackReturn)

\* ----------------------------------------------------------- engine actions
StoreEng(e) ==
    /\ model' = e.model
    /\ tokenizer' = e.tokenizer
    /\ mel_extractor' = e.mel_extractor
    /\ t_embed' = e.t_embed

\* engine.rs:65-99  load(&mut self): not while a streaming transcribe borrows
\* the engine
Load(fail, elapsed) ==
    /\ dec_pc = "idle"
    /\ is_loaded(EngSelf) \/ tokenizer_reads < MaxLoads
    /\ \E out \in {load(EngSelf, fail, elapsed, tokenizer_reads,
                        model_reads)} :
          /\ StoreEng(out.e)
          /\ tokenizer_reads' = out.treads
          /\ model_reads' = out.mreads
          /\ eng_ret' = EngOutcome("load", out.ok, out.value, out.error)
    /\ UNCHANGED outsideEngine

\* engine.rs:102-108  unload(&mut self)
Unload ==
    /\ dec_pc = "idle"
    /\ StoreEng(unload(EngSelf))
    /\ eng_ret' = EngOutcome("unload", TRUE, 0, "")
    /\ UNCHANGED <<tokenizer_reads, model_reads, outsideEngine>>

\* engine.rs:111-164  transcribe(audio)
Transcribe(infer_ok, text) ==
    /\ dec_pc = "idle"
    /\ \E out \in {transcribe(EngSelf, infer_ok, text)} :
          eng_ret' = EngOutcome("transcribe", out.ok, out.value, out.error)
    /\ UNCHANGED <<model, tokenizer, mel_extractor, t_embed, tokenizer_reads,
                   model_reads, outsideEngine>>

\* The decoder's locals as they are outside decode_streaming.
NoLocals ==
    /\ seq_len' = 0
    /\ pos' = 0
    /\ generated' = <<>>
    /\ text_token_ids' = <<>>
    /\ last_decoded_len' = 0
    /\ cache_len' = 0
    /\ slice_idx' = <<>>

\* engine.rs:214-234, streaming.rs:73-102  transcribe_streaming(audio,
\* on_partial) is called with a window of len samples that is split into n
\* chunks: an error when a resource is missing (engine.rs:219-222), else the
\* for loop over the chunks is entered.
TranscribeStreaming(len, n) ==
    /\ dec_pc = "idle"
    /\ len = 0 => n = 1
    /\ audio_len' = len
    /\ chunk_idx' = 0
    /\ texts' = <<>>
    /\ partials' = <<>>
    /\ prefills' = 0
    /\ steps' = 0
    /\ NoLocals
    /\ dec_ret' = [DecOutcome("call", 0, FALSE, <<>>, <<>>)
                      EXCEPT !.texts = <<>>, !.chunk = 0]
    /\ IF MissingResource(EngSelf) # ""
       THEN /\ dec_pc' = "done"
            /\ chunks' = 0
            /\ result' = Err(MissingResource(EngSelf))
       ELSE /\ dec_pc' = "chunk"
            /\ chunks' = n
            /\ result' = Err("")
    /\ events' = <<>>
    /\ UNCHANGED <<engineVars, outsideDecoder>>

\* streaming.rs:104-108, 136-198  one chunk is taken up: its mel spectrogram
\* is computed (an error when it has no frames), the audio encoded to sl
\* positions, an empty text returned when sl < PREFIX_LEN, else the prefix
\* prefilled and the first token generated and handled.
ChunkStart(mel_ok, sl, first_token) ==
    /\ dec_pc = "chunk"
    /\ chunk_idx < chunks
    /\ IF ~mel_ok
       THEN /\ dec_pc' = "done"
            /\ result' = Err("Audio too short to produce mel frames")
            /\ dec_ret' = DecOutcome("mel_error", 0, FALSE, <<>>, <<>>)
            /\ NoLocals
            /\ UNCHANGED <<chunk_idx, partials, prefills, events>>
       ELSE IF TooShort(sl)
       THEN /\ dec_pc' = "chunk"
            /\ chunk_idx' = chunk_idx + 1
            /\ dec_ret' = DecOutcome("chunk_start", sl, FALSE, <<>>, <<>>)
            /\ NoLocals
            /\ UNCHANGED <<result, partials, prefills, events>>
       ELSE \E out \in {FirstTokenPartial(<<>>, 0, first_token)} :
            /\ dec_pc' = "loop"
            /\ seq_len' = sl
            /\ pos' = PREFIX_LEN + 1
            /\ generated' = Append(Prefix, first_token)
            /\ cache_len' = Len(Prefix)
            /\ slice_idx' = <<>>
            /\ text_token_ids' = out.ids
            /\ last_decoded_len' = out.last
            /\ partials' = partials \o
                  [i \in 1..Len(out.emit) |->
                      [text |-> out.emit[i], chunk |-> chunk_idx]]
            /\ events' = events \o
                  [i \in 1..Len(out.emit) |-> on_partial(out.emit[i])]
            /\ prefills' = prefills + 1
            /\ dec_ret' = DecOutcome("chunk_start", sl, TRUE, out.emit,
                                     out.handed)
            /\ UNCHANGED <<chunk_idx, result>>
    /\ UNCHANGED <<audio_len, chunks, texts, steps, engineVars,
                   outsideDecoder>>

\* streaming.rs:207-237  one pass of the decode loop: the model's next token
\* is generated and handled.
DecodeStep(next_token) ==
    /\ dec_pc = "loop"
    /\ pos < seq_len
    /\ \E out \in {NextTokenPartial(text_token_ids, last_decoded_len,
                                    next_token)} :
          /\ generated' = Append(generated, next_token)
          /\ cache_len' = cache_len + 1
          /\ slice_idx' = <<AudioIndex(pos)>>
          /\ text_token_ids' = out.ids
          /\ last_decoded_len' = out.last
          /\ partials' = partials \o
                [i \in 1..Len(out.emit) |->
                    [text |-> out.emit[i], chunk |-> chunk_idx]]
          /\ events' = events \o
                [i \in 1..Len(out.emit) |-> on_partial(out.emit[i])]
          /\ dec_ret' = DecOutcome("decode_step", seq_len, FALSE, out.emit,
                                   out.handed)
    /\ pos' = pos + 1
    /\ steps' = steps + 1
    /\ UNCHANGED <<dec_pc, audio_len, chunks, chunk_idx, seq_len, texts,
                   result, prefills, engineVars, outsideDecoder>>

\* streaming.rs:239-249, 109-112  the decode loop is over: the text tokens
\* after the prefix are decoded (an error when that fails) and the trimmed
\* text kept when it is not empty.
ChunkEnd ==
    /\ dec_pc = "loop"
    /\ pos >= seq_len
    /\ \E ids \in {FinalTokens(generated)} : \E decoded \in {Decode(ids)} :
          /\ dec_ret' = DecOutcome("chunk_end", seq_len, FALSE, <<>>,
                                   <<ids>>)
          /\ IF decoded.ok
             THEN /\ dec_pc' = "chunk"
                  /\ chunk_idx' = chunk_idx + 1
                  /\ texts' = IF Trim(decoded.text) # <<>>
                              THEN Append(texts, Trim(decoded.text))
                              ELSE texts
                  /\ UNCHANGED result
             ELSE /\ dec_pc' = "done"
                  /\ result' = Err("Failed to decode tokens")
                  /\ UNCHANGED <<chunk_idx, texts>>
    /\ NoLocals
    /\ UNCHANGED <<audio_len, chunks, partials, prefills, steps, events,
                   engineVars, outsideDecoder>>

\* streaming.rs:114-129  every chunk is decoded: the texts are joined and the
\* result returned.
TranscribeFinish ==
    /\ dec_pc = "chunk"
    /\ chunk_idx >= chunks
    /\ dec_pc' = "done"
    /\ result' = Ok(Join(texts), Rtf(audio_len))
    /\ dec_ret' = DecOutcome("finish", 0, FALSE, <<>>, <<>>)
    /\ UNCHANGED <<audio_len, chunks, chunk_idx, seq_len, pos, generated,
                   text_token_ids, last_decoded_len, cache_len, slice_idx,
                   texts, partials, prefills, steps, events, engineVars,
                   outsideDecoder>>

\* The decoder variables as they are while no streaming transcribe runs.
DecoderReset ==
    /\ dec_pc' = "idle"
    /\ audio_len' = 0
    /\ chunks' = 0
    /\ chunk_idx' = 0
    /\ NoLocals
    /\ texts' = <<>>
    /\ result' = Err("")
    /\ partials' = <<>>
    /\ prefills' = 0
    /\ steps' = 0
    /\ dec_ret' = [op |-> "none", seq_len |-> 0, prefill |-> FALSE,
                   emit |-> <<>>, handed |-> <<>>, texts |-> <<>>,
                   chunk |-> 0]

\* engine.rs:233  the caller of transcribe_streaming has taken the result;
\* the call is over.
TranscribeReturn ==
    /\ dec_pc = "done"
    /\ DecoderReset
    /\ events' = <<>>
    /\ UNCHANGED <<engineVars, outsideDecoder>>

InitEngine ==
    /\ ProcessorInit({[min |-> 2, max |-> 3, silence_pause_ms |-> 1000,
                       buffer_ms |-> 500]})
    /\ DefaultCapture
    /\ VoxtralEngineNew
    /\ DecoderIdle
    /\ TranscriptServerNew
    /\ SessionNew

NextEngine ==
    \/ \E fail \in LoadFailures : \E elapsed \in ElapsedMs :
          Load(fail, elapsed)
    \/ Unload
    \/ \E infer_ok \in BOOLEAN : \E text \in Texts :
          Transcribe(infer_ok, text)

SpecEngine == InitEngine /\ [][NextEngine]_vars

\* ---------------------------------------------------------- decoder actions
\* The engine as its owner has it after new() (engine.rs:45-57) alone, or
\* after new() and a successful load() (engine.rs:65-99).
InitDecoder ==
    /\ ProcessorInit({[min |-> 2, max |-> 3, silence_pause_ms |-> 1000,
                       buffer_ms |-> 500]})
    /\ DefaultCapture
    /\ \E loaded \in BOOLEAN :
          \E out \in {load(EngIdle, "none", 0, 0, 0)} :
             /\ model = IF loaded THEN out.e.model ELSE <<>>
             /\ tokenizer = IF loaded THEN out.e.tokenizer ELSE <<>>
             /\ mel_extractor = IF loaded THEN out.e.mel_extractor ELSE <<>>
             /\ t_embed = IF loaded THEN out.e.t_embed ELSE <<>>
             /\ tokenizer_reads = IF loaded THEN out.treads ELSE 0
             /\ model_reads = IF loaded THEN out.mreads ELSE 0
             /\ eng_ret = IF loaded
                          THEN [op |-> "load", ok |-> TRUE, value |-> 0,
                                error |-> "", before |-> EngIdle,
                                reads |-> <<0, 0>>]
                          ELSE [op |-> "new", ok |-> TRUE, value |-> 0,
                                error |-> "", before |-> EngIdle,
                                reads |-> <<0, 0>>]
    /\ DecoderIdle
    /\ TranscriptServerNew
    /\ SessionNew

NextDecoder ==
    \/ \E infer_ok \in BOOLEAN : \E text \in Texts :
          Transcribe(infer_ok, text)
    \/ \E len \in AudioLens : \E n \in ChunkCounts :
          TranscribeStreaming(len, n)
    \/ \E mel_ok \in BOOLEAN : \E sl \in SeqLens : \E t \in Tokens :
          ChunkStart(mel_ok, sl, t)
    \/ \E t \in Tokens : DecodeStep(t)
    \/ ChunkEnd
    \/ TranscribeFinish
    \/ TranscribeReturn

SpecDecoder == InitDecoder /\ [][NextDecoder]_vars

\* -------------------------------------------------------------- bus actions
\* cli.rs:120-147  the pump sends its next event.
Publish ==
    /\ pump_alive
    /\ CanSend(ring, tail, IF rx_state = "open" THEN 1 ELSE 0, rx_next)
    /\ IF rx_state = "open" THEN tail < MaxStored ELSE unheard < MaxUnheard
    /\ \E out \in {bus_send(ring, tail,
                            IF rx_state = "open" THEN 1 ELSE 0, emitted)} :
          /\ ring' = out.ring
          /\ tail' = out.tail
          /\ unheard' = IF out.ok THEN unheard ELSE unheard + 1
          /\ pump_alive' = AfterSend(out.ok)
          /\ bus_ret' = BusOutcome(IF out.ok THEN "send" ELSE "send_lost",
                                   <<emitted>>, 0)
    /\ emitted' = emitted + 1
    /\ UNCHANGED <<rx_state, rx_next, rx_last, skipped, outsideBus>>

\* websocket.rs:129-131  a client connects: handle_socket subscribes.
Connect ==
    /\ ws_pc = "listening"
    /\ rx_state = "none"
    /\ rx_state' = "open"
    /\ rx_next' = subscribe(tail)
    /\ bus_ret' = BusOutcome("subscribe", <<>>, 0)
    /\ UNCHANGED <<emitted, ring, tail, rx_last, unheard, skipped,
                   pump_alive, outsideBus>>

\* websocket.rs:136-151  the receiver yields an event and it is written to
\* the socket; the task ends when the write fails.
RxForward(socket_ok) ==
    /\ rx_state = "open"
    /\ \E out \in {bus_recv(ring, tail, rx_next)} :
          /\ out.kind = "ok"
          /\ rx_next' = out.next
          /\ skipped' = 0
          /\ IF socket_ok
             THEN /\ rx_last' = out.event
                  /\ bus_ret' = BusOutcome("forward", out.event, 0)
                  /\ UNCHANGED rx_state
             ELSE /\ rx_state' = "closed"
                  /\ bus_ret' = BusOutcome("send_failed", out.event, 0)
                  /\ UNCHANGED rx_last
    /\ UNCHANGED <<emitted, ring, tail, unheard, pump_alive, outsideBus>>

\* websocket.rs:152-154  the receiver reports Lagged(n); the task goes on.
RxLagged ==
    /\ rx_state = "open"
    /\ \E out \in {bus_recv(ring, tail, rx_next)} :
          /\ out.kind = "lagged"
          /\ rx_next' = out.next
          /\ skipped' = skipped + out.n
          /\ rx_state' = AfterLagged(out.n)
          /\ bus_ret' = BusOutcome("lagged", <<>>, out.n)
    /\ UNCHANGED <<emitted, ring, tail, rx_last, unheard, pump_alive,
                   outsideBus>>

\* websocket.rs:162-181  the client closes or the socket fails: the task
\* ends and its receiver is dropped.
Disconnect ==
    /\ rx_state = "open"
    /\ rx_state' = "closed"
    /\ bus_ret' = BusOutcome("disconnect", <<>>, 0)
    /\ UNCHANGED <<emitted, ring, tail, rx_next, rx_last, unheard, skipped,
                   pump_alive, outsideBus>>

InitBus ==
    /\ ProcessorInit({[min |-> 2, max |-> 3, silence_pause_ms |-> 1000,
                       buffer_ms |-> 500]})
    /\ DefaultCapture
    /\ VoxtralEngineNew
    /\ DecoderIdle
    /\ TranscriptServerNew
    /\ SessionAt("listening")

NextBus ==
    \/ Publish
    \/ Connect
    \/ \E socket_ok \in BOOLEAN : RxForward(socket_ok)
    \/ RxLagged
    \/ Disconnect

SpecBus == InitBus /\ [][NextBus]_vars

\* ---------------------------------------------------------- session actions
\* cli.rs:89-92  the Loading status is sent.
PublishLoading ==
    /\ drv_pc = "start"
    /\ drv_pc' = "loading"
    /\ statuses' = Append(statuses, status("Loading model..."))
    /\ ses_ret' = SesOutcome("status", TRUE)
    /\ UNCHANGED <<audio_buffer, events, aborted, ws_pc, windows,
                   processorVars, captureVars, engineVars, decoderVars,
                   busVars>>

\* cli.rs:93-94  engine.load()
LoadModel(fail, elapsed) ==
    /\ drv_pc = "loading"
    /\ \E out \in {load(EngSelf, fail, elapsed, tokenizer_reads,
                        model_reads)} :
          /\ StoreEng(out.e)
          /\ tokenizer_reads' = out.treads
          /\ model_reads' = out.mreads
          /\ eng_ret' = EngOutcome("load", out.ok, out.value, out.error)
          /\ drv_pc' = AfterLoad(out.ok)
          /\ ses_ret' = SesOutcome("load", out.ok)
    /\ UNCHANGED <<statuses, audio_buffer, events, aborted, ws_pc, windows,
                   processorVars, captureVars, decoderVars, busVars>>

\* cli.rs:95  the Ready status is sent.
PublishReady ==
    /\ drv_pc = "loaded"
    /\ drv_pc' = "ready"
    /\ statuses' = Append(statuses, status("Ready"))
    /\ ses_ret' = SesOutcome("status", TRUE)
    /\ UNCHANGED <<audio_buffer, events, aborted, ws_pc, windows,
                   processorVars, captureVars, engineVars, decoderVars,
                   busVars>>

\* cli.rs:98-151  the capture is built and started (main returns the error
\* when the device refuses) and the pump task spawned.
StartCapture(dev_ok) ==
    /\ drv_pc = "ready"
    /\ \E out \in {start(CapSelf, device, buffer_duration_ms, dev_ok)} :
          /\ StoreCap(out.c)
          /\ streams' = IF out.ok THEN streams + 1 ELSE streams
          /\ cap_ret' = CapOutcome("start", out.ok, NoChunk)
          /\ drv_pc' = IF out.ok THEN "running" ELSE "exit"
          /\ ses_ret' = SesOutcome("start", out.ok)
    /\ UNCHANGED <<device, buffer_duration_ms, capture_alive, cb_pc, chan,
                   frames_in, consumed, dropped, recv_high, statuses,
                   audio_buffer, events, aborted, ws_pc, windows,
                   processorVars, engineVars, decoderVars, busVars>>

\* capture.rs:107-118, 196-226  the device calls the stream's callback with
\* one chunk's worth of mono frames of amplitude amp: process_samples drains
\* one chunk and try_sends it.
DeviceChunk(amp) ==
    /\ stream = "Some"
    /\ Len(chan) < MaxQueued
    /\ \E chunk \in {[samples |-> [i \in 1..buffer_size |-> amp],
                      sample_rate |-> device.sample_rate]} :
       \E out \in {try_send(chan, chunk)} :
          chan' = out.chan
    /\ UNCHANGED <<device, buffer_duration_ms, stream, capture_alive,
                   buffer_size, buf, cb_pc, frames_in, consumed, streams,
                   dropped, recv_high, cap_ret, processorVars, engineVars,
                   decoderVars, busVars, sessionVars>>

\* Variant of PumpAtRecv in which the pump receives the next chunk while the
\* transcription of a window is still running.
PumpAtRecvAnytime(pc, window) == TRUE

\* cli.rs:113-150  the pump task is at audio_rx.recv().await: the body of
\* its while loop is straight-line code, transcribe_streaming a plain call in
\* it, so no transcription is running and no yielded window is held.
PumpAtRecv(pc, window) == pc = "idle" /\ window = <<>>

\* cli.rs:113-115  the pump receives a chunk and feeds it to the
\* accumulator; audio_buffer is what feed yields.  The events of the window
\* before are history.
PumpRecv ==
    /\ drv_pc \in {"running", "stopped"}
    /\ ~aborted
    /\ PumpAtRecv(dec_pc, audio_buffer)
    /\ chan # <<>>
    /\ Len(accumulated) < MaxAccLen * buffer_size
    /\ \E got \in {recv(chan)} :
       \E out \in {feed(Self, got.chunk, TRUE)} :
          /\ IsSpeech(got.chunk.samples) \/ silence_count < MaxSilence
          /\ chan' = got.chan
          /\ Store(out.st)
          /\ audio_buffer' = IF out.some THEN <<out.buffer>> ELSE <<>>
          /\ ses_ret' = SesOutcome("feed", out.some)
    /\ events' = <<>>
    /\ UNCHANGED <<cfgVars, ret, histVars, device, buffer_duration_ms, stream,
                   capture_alive, buffer_size, buf, cb_pc, frames_in, consumed,
                   streams, dropped, recv_high, cap_ret, drv_pc, statuses,
                   aborted, ws_pc, windows, engineVars, decoderVars, busVars>>

\* cli.rs:120  the pump calls engine.transcribe_streaming on the yielded
\* window, which is short enough to need no chunking.
PumpTranscribe ==
    /\ audio_buffer # <<>>
    /\ TranscribeStreaming(Len(audio_buffer[1].samples), 1)

\* cli.rs:130-149  the pump has the result of the window and sends the final
\* or the error event; the loop body is over.
PumpResult ==
    /\ audio_buffer # <<>>
    /\ dec_pc = "done"
    /\ DecoderReset
    /\ events' = events \o ResultEvents(result)
    /\ audio_buffer' = <<>>
    /\ windows' = Min(windows + 1, MaxWindows)
    /\ ses_ret' = SesOutcome("result", result.ok)
    /\ UNCHANGED <<drv_pc, statuses, aborted, ws_pc, processorVars,
                   captureVars, engineVars, busVars>>

\* The outcome of the server task: serving, or ended with the bind error.
AfterBind(bind_ok) == IF bind_ok THEN "listening" ELSE "failed"

\* cli.rs:75-79, websocket.rs:101-113  the server task runs
\* TranscriptServer::run: it binds the port and serves; a bind error makes
\* run return Err, which the task logs.  main is not told.  The task ends
\* with the process when main returns.
ServerRun(bind_ok) ==
    /\ ws_pc = "spawned"
    /\ drv_pc # "exit"
    /\ ws_pc' = AfterBind(bind_ok)
    /\ UNCHANGED <<drv_pc, statuses, audio_buffer, events, aborted, windows,
                   ses_ret, processorVars, captureVars, engineVars,
                   decoderVars, busVars>>

\* cli.rs:154-159  ctrl-c arrives and main stops the capture.
CtrlC ==
    /\ drv_pc = "running"
    /\ drv_pc' = "stopped"
    /\ StoreCap(stop(CapSelf))
    /\ consumed' = consumed + Len(buf)
    /\ cap_ret' = CapOutcome("stop", TRUE, NoChunk)
    /\ ses_ret' = SesOutcome("stop", TRUE)
    /\ UNCHANGED <<device, buffer_duration_ms, capture_alive, cb_pc, chan,
                   frames_in, streams, dropped, recv_high, statuses,
                   audio_buffer, events, aborted, ws_pc, windows,
                   processorVars, engineVars, decoderVars, busVars>>

\* cli.rs:161-169  main aborts the pump task and returns: the pump receives
\* no further chunk.
Abort ==
    /\ drv_pc = "stopped"
    /\ drv_pc' = "down"
    /\ aborted' = TRUE
    /\ ws_pc' = IF ws_pc = "failed" THEN "failed" ELSE "aborted"
    /\ ses_ret' = SesOutcome("abort", TRUE)
    /\ UNCHANGED <<statuses, audio_buffer, events, windows, processorVars,
                   captureVars, engineVars, decoderVars, busVars>>

InitSession ==
    /\ ProcessorInit(SessionConfigs)
    /\ AudioCaptureNew(SessionDevice, SessionBufferMs)
    /\ VoxtralEngineNew
    /\ DecoderIdle
    /\ TranscriptServerNew
    /\ SessionNew

NextSession ==
    \/ \E bind_ok \in BOOLEAN : ServerRun(bind_ok)
    \/ PublishLoading
    \/ \E fail \in LoadFailures : \E elapsed \in ElapsedMs :
          LoadModel(fail, elapsed)
    \/ PublishReady
    \/ \E dev_ok \in BOOLEAN : StartCapture(dev_ok)
    \/ \E amp \in Amps : DeviceChunk(amp)
    \/ PumpRecv
    \/ PumpTranscribe
    \/ \E mel_ok \in BOOLEAN : \E sl \in SessionSeqLens : \E t \in Tokens :
          ChunkStart(mel_ok, sl, t)
    \/ \E t \in Tokens : DecodeStep(t)
    \/ ChunkEnd
    \/ TranscribeFinish
    \/ PumpResult
    \/ CtrlC
    \/ Abort

SpecSession == InitSession /\ [][NextSession]_vars

\* ------------------------------------------------------------------- claims
FeedYielded == ret.op = "feed" /\ ret.some
FlushYielded == ret.op = "flush" /\ ret.some
Constructed == Acc(<<>>, <<>>, 0, FALSE)

\* C1: every buffer returned by feed was preceded, since the previous yield
\* or reset (or construction), by at least one chunk with RMS energy >=
\* speech_threshold.
C1_FeedYieldHadSpeech == FeedYielded => ret.seen

\* C2: a yield at the hard limit drops the samples beyond max_samples: the
\* accumulator is empty after it, and no sample fed before a yield appears in
\* a later yielded buffer.
C2_OverflowDropped ==
    /\ (FeedYielded /\ Len(ret.mid.accumulated) >= max_samples)
           => accumulated = <<>>
    /\ ret.some => ret.stale = 0

\* C3 as stated: every buffer from feed or flush has a length in
\* [min_samples, max_samples].
C3_LengthInWindow ==
    ret.some => /\ Len(ret.buffer.samples) >= min_samples
                /\ Len(ret.buffer.samples) <= max_samples

\* C3 amended: a buffer from feed has a length in [min_samples, max_samples];
\* a buffer from flush has a length in [1, max_samples].
C3_LengthInWindowFeedOnly ==
    /\ FeedYielded => /\ Len(ret.buffer.samples) >= min_samples
                      /\ Len(ret.buffer.samples) <= max_samples
    /\ FlushYielded => /\ Len(ret.buffer.samples) >= 1
                       /\ Len(ret.buffer.samples) <= max_samples

C3_Witness ==
    FlushYielded /\ Len(ret.buffer.samples) < min_samples

\* C4: feed returns a buffer exactly when, once the chunk is absorbed,
\* accumulated.len() >= max_samples, or has_speech holds, accumulated.len() >=
\* min_samples and at least silence_pause_chunks consecutive silent chunks
\* followed the last speech chunk; a chunk whose resampling fails returns none.
C4_YieldExactlyWhen ==
    ret.op = "feed" =>
        IF ret.failed THEN ~ret.some
        ELSE ret.some <=>
                \/ Len(ret.mid.accumulated) >= max_samples
                \/ /\ ret.mid.has_speech
                   /\ Len(ret.mid.accumulated) >= min_samples
                   /\ ret.run >= silence_pause_chunks

\* A pause yield below the hard limit, on the second silent chunk after speech.
C4_Witness ==
    /\ FeedYielded
    /\ Len(ret.mid.accumulated) < max_samples
    /\ ret.run = 2
    /\ silence_pause_chunks = 2

\* C5: a buffer yielded by feed from a fresh accumulator is the latest silent
\* chunk before the first speech chunk followed by every chunk from the first
\* speech chunk up to the one that triggered the yield, cut to max_samples.
C5_WindowContent ==
    (FeedYielded /\ ret.fresh) =>
        ret.raw = SubSeq(ret.fed, 1, Min(Len(ret.fed), max_samples))

\* A pause yield that starts with a pre-roll chunk and ends with silence.
C5_Witness ==
    /\ FeedYielded /\ ret.fresh
    /\ Len(ret.raw) >= 3
    /\ ~IsSpeech(<<ret.raw[1]>>)
    /\ IsSpeech(<<ret.raw[2]>>)
    /\ ~IsSpeech(<<ret.raw[Len(ret.raw)]>>)

C7_FlushYieldsIff ==
    ret.op = "flush" =>
        (ret.some <=> (ret.mid.has_speech /\ ret.mid.accumulated # <<>>))

\* A flush that returned none although samples were accumulated.
C7_Witness ==
    ret.op = "flush" /\ ~ret.some /\ ret.mid.accumulated # <<>>

\* C8: after flush the accumulator is in the reset state, whether or not it
\* yielded; a flush that follows a reset or a flush returns none.
C8_FlushResets ==
    /\ [](ret.op = "flush" => Self = Constructed)
    /\ [][(ret.op \in {"flush", "reset"} /\ ret'.op = "flush") => ~ret'.some]_vars

\* A flush that yielded and left the reset state.
C8_Witness == FlushYielded /\ Self = Constructed /\ ret.mid.silence_count > 0

\* C9: when resampling fails, feed returns none and leaves accumulated,
\* pre_roll, silence_count and has_speech unchanged.
C9_ResampleFailureLeavesState ==
    (ret.op = "feed" /\ ret.failed) => (~ret.some /\ Self = ret.mid)

\* A failed resampling in the middle of an utterance.
C9_Witness ==
    /\ ret.op = "feed" /\ ret.failed
    /\ has_speech /\ silence_count > 0 /\ accumulated # <<>>

\* C10: every yielded buffer has sample_rate = 16000, whatever the rate of the
\* chunks that were fed.
C10_BufferRate16k == ret.some => ret.buffer.sample_rate = 16000

\* A yield triggered by a chunk captured at another rate.
C10_Witness == FeedYielded /\ ret.rate # 16000

\* C11: every buffer that leaves the accumulator has a peak absolute sample
\* of at most 0.95 (950 thousandths).
C11_PeakAtMost095 == ret.some => Peak(ret.buffer.samples) <= NormalizePeak

\* A yielded window whose samples were scaled up to the target peak.
C11_Witness ==
    /\ ret.some
    /\ Peak(ret.raw) < NormalizePeak
    /\ Peak(ret.buffer.samples) = NormalizePeak
    /\ Len(ret.raw) >= 2

\* C12: the device callback never waits on the chunk channel: a pass of its
\* loop can always be taken; a chunk sent while the channel holds
\* ChannelCapacity (32) chunks is dropped and any other is queued, so the
\* channel never holds more than 32; and a receive makes room, so the next
\* chunk after it is accepted.
C12_CallbackNeverWaits ==
    /\ Len(chan) <= ChannelCapacity
    /\ cb_pc = "loop" => ENABLED (CallbackSend \/ CallbackReturn)
    /\ cap_ret.op = "send" =>
          /\ cap_ret.ok <=> cap_ret.len_before < ChannelCapacity
          /\ Len(chan) = IF cap_ret.ok THEN cap_ret.len_before + 1
                         ELSE cap_ret.len_before
          /\ cap_ret.ok => chan[Len(chan)] = cap_ret.chunk
    /\ cap_ret.op = "recv" =>
          /\ Len(chan) = cap_ret.len_before - 1
          /\ try_send(chan, cap_ret.chunk).ok

\* A chunk is accepted into the one free place of the channel, after an
\* earlier chunk was dropped on the full channel.
C12_Witness ==
    /\ cap_ret.op = "send"
    /\ cap_ret.ok
    /\ cap_ret.len_before = ChannelCapacity - 1
    /\ cap_ret.chunk.samples # <<>>
    /\ dropped # {}
    /\ 0 \notin dropped

\* sample_rate x chunk_ms / 1000 for the device and chunk duration in use
ChunkSamples == (device.sample_rate * buffer_duration_ms) \div 1000

\* One sample per device frame, in arrival order without a gap.
MonoFrames(samples) ==
    \A j \in 1..(Len(samples) - 1) : samples[j + 1] = samples[j] + 1

\* C13: every chunk the callback produces (sent or dropped, waiting in the
\* channel or received) holds exactly ChunkSamples mono samples, and once
\* the callback has returned its buffer holds fewer than ChunkSamples.
C13_ChunkSizeExact ==
    /\ \A i \in 1..Len(chan) :
          /\ Len(chan[i].samples) = ChunkSamples
          /\ MonoFrames(chan[i].samples)
    /\ cap_ret.op \in {"send", "recv"} =>
          /\ Len(cap_ret.chunk.samples) = ChunkSamples
          /\ MonoFrames(cap_ret.chunk.samples)
    /\ cap_ret.op = "return" => Len(buf) < ChunkSamples
    /\ stream = "Some" /\ cb_pc = "idle" /\ ChunkSamples > 0 =>
          Len(buf) < ChunkSamples

\* The callback returns while the channel is full, a chunk having been
\* dropped on it.
C13_Witness ==
    /\ cap_ret.op = "return"
    /\ cap_ret.len_before = ChannelCapacity
    /\ dropped # {}
    /\ 0 \notin dropped
    /\ Len(buf) < ChunkSamples

\* C14: every invocation of the device callback terminates: a callback that
\* has entered the loop of process_samples eventually returns, whatever the
\* chunk duration, the sample rate and the data size, and whatever the pump
\* does.
C14_CallbackTerminates == (cb_pc = "loop") ~> (cb_pc = "idle")

\* The same for chunk sizes of at least one sample.
C14_TerminatesWhenChunkNonEmpty ==
    (cb_pc = "loop" /\ buffer_size > 0) ~> (cb_pc = "idle")

\* C15: chunks reach the pump in the order the callback produced them, a
\* dropped chunk is never delivered, and no chunk is delivered twice.  The
\* callback produces non-empty chunks in the order of their first samples
\* (frame arrival numbers): every chunk it produces is later than all chunks
\* waiting, received or dropped; the channel holds its chunks in that order,
\* none of them received or dropped before; and each received chunk is later
\* than every chunk received before it and was not dropped.
C15_FifoDelivery ==
    ChunkSamples > 0 =>
       /\ \A i \in 1..Len(chan) :
             /\ Key(chan[i]) > recv_high
             /\ Key(chan[i]) \notin dropped
             /\ i < Len(chan) => Key(chan[i]) < Key(chan[i + 1])
       /\ cap_ret.op = "send" =>
             /\ Key(cap_ret.chunk) > recv_high
             /\ \A k \in dropped : k <= Key(cap_ret.chunk)
             /\ \A i \in 1..Len(chan) : Key(chan[i]) <= Key(cap_ret.chunk)
             /\ cap_ret.ok <=> Key(cap_ret.chunk) \notin dropped
       /\ cap_ret.op = "recv" =>
             /\ Key(cap_ret.chunk) > cap_ret.high
             /\ Key(cap_ret.chunk) \notin dropped
             /\ \A i \in 1..Len(chan) : Key(cap_ret.chunk) < Key(chan[i])

\* The pump, having received chunks before, receives one that was produced
\* after a chunk that was dropped.
C15_Witness ==
    /\ cap_ret.op = "recv"
    /\ \E k \in dropped : 0 < k /\ k < Key(cap_ret.chunk)
    /\ cap_ret.high > 0

\* The stream, its closure, the callback's position and the channel.
streamVars == <<stream, buffer_size, buf, cb_pc, chan>>

\* C16: start on a capture source that holds a stream fails and leaves that
\* stream as it was (running, with its chunk size and buffered samples);
\* a start that succeeds was called on a stopped source.
C16_StartOnlyFromStopped ==
    /\ [](cap_ret.op = "start" =>
            /\ cap_ret.running => ~cap_ret.ok /\ stream = "Some"
            /\ cap_ret.ok => ~cap_ret.running /\ stream = "Some")
    /\ [][stream = "Some" /\ cap_ret'.op = "start" =>
            ~cap_ret'.ok /\ UNCHANGED streamVars]_vars

\* start has failed on a running source whose stream holds buffered samples.
C16_Witness ==
    /\ cap_ret.op = "start"
    /\ cap_ret.running
    /\ ~cap_ret.ok
    /\ stream = "Some"
    /\ buf # <<>>

\* C17: after stop or drop no stream is held; stop on a source that holds
\* no stream changes nothing (stop after stop is stop); and after stop a
\* start succeeds again if the device accepts it.
C17_StopIdempotent ==
    /\ [](/\ cap_ret.op \in {"stop", "drop"} => CapSelf = CapStopped
          /\ stop(stop(CapSelf)) = stop(CapSelf)
          /\ cap_ret.op = "stop" =>
                start(CapSelf, device, buffer_duration_ms, TRUE).ok)
    /\ [][stream = "None" /\ cap_ret'.op = "stop" =>
            UNCHANGED <<streamVars, capture_alive, streams>>]_vars

\* stop has been called on a source that had run and was already stopped.
C17_Witness ==
    /\ cap_ret.op = "stop"
    /\ ~cap_ret.running
    /\ streams > 0
    /\ stream = "None"

\* C18: load on a loaded engine returns Ok(0), leaves the model, the
\* tokenizer, the mel extractor and the time embedding as they were, and
\* reads neither the tokenizer file nor the model file.
C18_LoadWhenLoaded ==
    eng_ret.op = "load" /\ is_loaded(eng_ret.before) =>
       /\ eng_ret.ok
       /\ eng_ret.value = 0
       /\ EngSelf = eng_ret.before
       /\ <<tokenizer_reads, model_reads>> = eng_ret.reads

\* load was called on an engine loaded by its second successful load.
C18_Witness ==
    /\ eng_ret.op = "load"
    /\ is_loaded(eng_ret.before)
    /\ model_reads >= 2
    /\ model = <<model_reads>>

\* The four resources are all present or all absent.
AllOrNone(e) ==
    \/ e = EngIdle
    \/ /\ e.model # <<>>
       /\ e.tokenizer # <<>>
       /\ e.mel_extractor # <<>>
       /\ e.t_embed # <<>>

\* C19: in every reachable state the four resources are all present or all
\* absent, and a load that fails at any step leaves the engine Idle with
\* none of them set.
C19_AllOrNone ==
    /\ AllOrNone(EngSelf)
    /\ eng_ret.op = "load" /\ ~eng_ret.ok => EngSelf = EngIdle

\* A load failed at its last fallible step, after both files were read, on
\* an engine that had been loaded and unloaded before.
C19_Witness ==
    /\ eng_ret.op = "load"
    /\ ~eng_ret.ok
    /\ eng_ret.error = "Failed to load Q4 model"
    /\ eng_ret.reads[2] >= 1
    /\ model_reads = eng_ret.reads[2] + 1

\* C20: after unload the engine is Idle and is_loaded() is false; unload on
\* an Idle engine (never loaded, or already unloaded) changes nothing.
C20_UnloadReleasesAll ==
    /\ unload(unload(EngSelf)) = unload(EngSelf)
    /\ eng_ret.op = "unload" =>
          /\ ~is_loaded(EngSelf)
          /\ EngSelf = EngIdle
          /\ eng_ret.before = EngIdle => EngSelf = eng_ret.before
          /\ <<tokenizer_reads, model_reads>> = eng_ret.reads

\* unload was called on an engine that had been loaded and was Idle again.
C20_Witness ==
    /\ eng_ret.op = "unload"
    /\ eng_ret.before = EngIdle
    /\ model_reads >= 1
    /\ tokenizer_reads = model_reads

\* C21: transcribe and the streaming transcribe, called on an engine that is
\* not loaded, return an error; the streaming transcribe then passes nothing
\* to the partial callback and runs no prefill and no decode step; and no
\* step of either changes the engine's loaded state.
C21_UnloadedTranscribeFails ==
    /\ [](/\ (eng_ret.op = "transcribe" /\ ~is_loaded(eng_ret.before)) =>
                (~eng_ret.ok /\ eng_ret.error # "" /\ EngSelf = eng_ret.before)
          /\ ~is_loaded(EngSelf) =>
                (/\ dec_pc \in {"idle", "done"}
                 /\ partials = <<>>
                 /\ prefills = 0
                 /\ steps = 0
                 /\ dec_pc = "done" => (~result.ok /\ result.error # "")))
    /\ [][~is_loaded(EngSelf) => EngSelf' = EngSelf]_vars

\* Both transcribes have been called on the engine that was never loaded.
C21_Witness ==
    /\ ~is_loaded(EngSelf)
    /\ eng_ret.op = "transcribe"
    /\ dec_ret.op = "call"
    /\ dec_pc = "done"
    /\ result.error = "Model not loaded"

\* C22: when the audio encoder returns fewer than 38 positions for a chunk,
\* the decoder returns the empty text for it without an error: that step
\* runs no prefill, hands nothing to the tokenizer, passes nothing to the
\* partial callback, enters no decode loop and adds no text; and a window
\* whose every chunk is that short ends in Ok with the empty text, no
\* partial, no prefill and no decode step.
C22_ShortEncodingEmptyText ==
    /\ (dec_ret.op = "chunk_start" /\ dec_ret.seq_len < 38) =>
          /\ ~dec_ret.prefill
          /\ dec_ret.emit = <<>>
          /\ dec_ret.handed = <<>>
          /\ dec_pc = "chunk"
          /\ generated = <<>>
          /\ texts = dec_ret.texts
          /\ chunk_idx = dec_ret.chunk + 1
    /\ (dec_ret.op = "finish" /\ prefills = 0) =>
          /\ result.ok
          /\ result.text = <<>>
          /\ partials = <<>>
          /\ steps = 0

\* A window of one chunk that the encoder gave 37 positions has been
\* transcribed.
C22_Witness ==
    /\ dec_ret.op = "finish"
    /\ chunks = 1
    /\ prefills = 0
    /\ result.ok
    /\ result.text = <<>>

TextChars == {" ", "a"}

\* C24: every token id handed to the tokenizer, for a partial or for a final
\* decode, is at least 1000; a step whose generated token is below 1000
\* hands nothing to the tokenizer and passes nothing to the partial
\* callback; and no partial and no returned text holds the text of a control
\* token.  The same holds for the token list that the non-streaming
\* transcribe hands to the tokenizer.
C24_OnlyTextTokensDecoded ==
    /\ \A i \in 1..Len(dec_ret.handed) :
          \A j \in 1..Len(dec_ret.handed[i]) : dec_ret.handed[i][j] >= 1000
    /\ (dec_pc = "loop" /\ generated[Len(generated)] < 1000) =>
          (dec_ret.emit = <<>> /\ dec_ret.handed = <<>>)
    /\ dec_pc = "loop" =>
          /\ \A j \in 1..Len(text_token_ids) : text_token_ids[j] >= 1000
          /\ SubSeq(generated, 1, PREFIX_LEN) = Prefix
    /\ \A i \in 1..Len(partials) :
          \A j \in 1..Len(partials[i].text) :
             partials[i].text[j] \in TextChars
    /\ \A j \in 1..Len(result.text) : result.text[j] \in TextChars
    /\ \A i \in 1..Len(texts) :
          \A j \in 1..Len(texts[i]) : texts[i][j] \in TextChars
    /\ (eng_ret.op = "transcribe" /\ dec_pc = "idle") =>
          \A gen \in GeneratedSeqs :
             \A j \in 1..Len(DecodeTokensInput(gen)) :
                DecodeTokensInput(gen)[j] >= 1000

\* After a partial, the model has generated the padding control token in a
\* pass of the decode loop.
C24_Witness ==
    /\ dec_pc = "loop"
    /\ dec_ret.op = "decode_step"
    /\ generated[Len(generated)] = STREAMING_PAD
    /\ partials # <<>>

\* C25: the events one subscriber is forwarded arrive in the order the pump
\* sent them, also across skipped events: each forwarded event was sent
\* later than the one forwarded before it, and within one window a partial
\* is only ever followed by a later partial or by the window's final or
\* error event, never the other way round.
C25_SubscriberOrder ==
    (bus_ret.op = "forward" /\ bus_ret.prev # <<>>) =>
       LET e == EventAt(bus_ret.event[1])
           p == EventAt(bus_ret.prev[1])
       IN  /\ e.seq > p.seq
           /\ e.window >= p.window
           /\ e.window = p.window => (p.kind = "partial" /\ e.idx > p.idx)

\* The subscriber is forwarded a window's final event after a partial of
\* the same window, the channel having wrapped around (more than 256 events
\* were stored before).
C25_Witness ==
    /\ bus_ret.op = "forward"
    /\ bus_ret.prev # <<>>
    /\ EventAt(bus_ret.event[1]).kind = "final"
    /\ EventAt(bus_ret.prev[1]).kind = "partial"
    /\ EventAt(bus_ret.event[1]).window = EventAt(bus_ret.prev[1]).window
    /\ bus_ret.event[1] > BusCapacity

\* C26: every transcript event sent with is_final = true carries an rtf
\* value, and every partial transcript event, status event and error event
\* carries none.
C26_RtfOnlyOnFinal ==
    /\ \A i \in 1..Len(events) :
          IF events[i].msg_type = "transcript" /\ events[i].is_final
          THEN events[i].rtf # <<>>
          ELSE events[i].rtf = <<>>
    /\ \A i \in 1..Len(statuses) : statuses[i].rtf = <<>>

\* The partial, status and error events carry no rtf; the final event
\* carries one when the accumulator's maximum is not 0, every yielded window
\* then holding at least one sample.
C26_RtfWhenWindowNonEmpty ==
    /\ \A i \in 1..Len(events) :
          IF events[i].msg_type = "transcript" /\ events[i].is_final
          THEN max_samples > 0 => events[i].rtf # <<>>
          ELSE events[i].rtf = <<>>
    /\ \A i \in 1..Len(statuses) : statuses[i].rtf = <<>>

\* The places in events of the final transcript events and of the error
\* events of the current window.
Finals ==
    {i \in 1..Len(events) :
        events[i].msg_type = "transcript" /\ events[i].is_final}
Errors == {i \in 1..Len(events) : events[i].msg_type = "error"}

\* C27: once the pump has handled the successful result of a window, it has
\* sent exactly one transcript event with is_final = true for the window,
\* whatever the text, the empty text included.
C27_OneFinalPerWindow ==
    (ses_ret.op = "result" /\ ses_ret.ok) => Cardinality(Finals) = 1

\* A successful window never gets more than one final event, and it gets
\* one whenever a partial was sent for it.
C27_AtMostOneFinal ==
    (ses_ret.op = "result" /\ ses_ret.ok) =>
       /\ Cardinality(Finals) <= 1
       /\ Len(events) > 0 => (Finals = {Len(events)})
       /\ Errors = {}

\* C28: once the pump has handled the failed result of a window (no mel
\* frames, or the final text not decodable), it has sent exactly one error
\* event, as the last event of the window and after nothing but partials,
\* and no final transcript; the window is dropped and the decoder idle (no
\* retry); and the pump takes the next chunk from the channel when there is
\* one, unless the task was aborted.
C28_ErrorEventAndContinue ==
    (ses_ret.op = "result" /\ ~ses_ret.ok) =>
       /\ Errors = {Len(events)}
       /\ Finals = {}
       /\ \A i \in 1..(Len(events) - 1) :
             events[i].msg_type = "transcript" /\ ~events[i].is_final
       /\ events[Len(events)].text \in
             {"Audio too short to produce mel frames",
              "Failed to decode tokens"}
       /\ audio_buffer = <<>>
       /\ dec_pc = "idle"
       /\ (/\ ~aborted
           /\ chan # <<>>
           /\ Len(accumulated) < MaxAccLen * buffer_size
           /\ IsSpeech(Head(chan).samples) \/ silence_count < MaxSilence)
             => ENABLED PumpRecv

\* A window has failed at the decoding of its final text after a partial
\* was sent for it, and the next chunk is waiting in the channel.
C28_Witness ==
    /\ ses_ret.op = "result"
    /\ ~ses_ret.ok
    /\ Len(events) = 2
    /\ events[2].text = "Failed to decode tokens"
    /\ chan # <<>>
    /\ ~aborted

\* The texts of the status events sent so far.
StatusTexts == [i \in 1..Len(statuses) |-> statuses[i].text]

\* C29: the Loading status is sent before engine.load is called, the Ready
\* status only after load has succeeded, and the capture is started only
\* after Ready was sent; when load fails, main ends with Ready never sent and
\* the capture never started.
C29_StartOrder ==
    /\ [](/\ StatusTexts \in {<<>>, <<"Loading model...">>,
                              <<"Loading model...", "Ready">>}
          /\ (eng_ret.op = "load" \/ tokenizer_reads > 0) =>
                Len(statuses) >= 1
          /\ Len(statuses) = 2 => (is_loaded(EngSelf) /\ eng_ret.ok)
          /\ (stream = "Some" \/ streams > 0) => Len(statuses) = 2
          /\ (eng_ret.op = "load" /\ ~eng_ret.ok) =>
                (/\ drv_pc = "exit"
                 /\ Len(statuses) = 1
                 /\ stream = "None"
                 /\ streams = 0))
    /\ [][drv_pc = "exit" => UNCHANGED vars]_vars

\* The load has failed at the model file and main has returned the error.
C29_FailedLoadWitness ==
    /\ drv_pc = "exit"
    /\ eng_ret.op = "load"
    /\ eng_ret.error = "Failed to load Q4 model"

\* The capture runs, after a load that succeeded and both status events.
C29_Witness ==
    /\ drv_pc = "running"
    /\ stream = "Some"
    /\ StatusTexts = <<"Loading model...", "Ready">>
    /\ is_loaded(EngSelf)

\* C30: at shutdown the capture is stopped first, so that no chunk enters
\* the channel afterwards; then the accumulator is flushed and what it
\* yields is transcribed; the engine is unloaded, after the pump has
\* finished.  Once main has returned: the stream is closed, the accumulator
\* holds no speech it would still yield, no chunk waits unread, no window is
\* left in the decoder, and the engine is unloaded.
C30_ShutdownOrder ==
    drv_pc = "down" =>
       /\ stream = "None"
       /\ ~FlushYields(Self)
       /\ chan = <<>>
       /\ dec_pc = "idle"
       /\ audio_buffer = <<>>
       /\ ~is_loaded(EngSelf)

\* The part of C30 the code keeps: from ctrl-c on the stream is closed and
\* no step adds a chunk to the channel.
C30_NoChunkAfterStop ==
    /\ [](drv_pc \in {"stopped", "down"} => stream = "None")
    /\ [][(drv_pc \in {"stopped", "down"}) => Len(chan') <= Len(chan)]_vars

\* The session is down with speech still in the accumulator.
C30_SpeechLeftWitness ==
    drv_pc = "down" /\ FlushYields(Self) /\ is_loaded(EngSelf)

\* C31: a subscriber that has fallen behind the 256 retained events is not
\* disconnected.  Its receiver reports Lagged with the number of events it
\* skips, and stands at the oldest retained event: the events reported as
\* skipped since the last one it was forwarded are exactly those sent after
\* that one and no longer retained; the forwarding task is still running
\* and can forward the oldest retained event.  Whenever an event is
\* forwarded, it was sent later than the one forwarded before it, exactly
\* the events reported as skipped lie between the two, and none of them is
\* retained.
C31_LaggedKeepsReceiving ==
    /\ [](/\ bus_ret.op = "lagged" =>
                /\ rx_state = "open"
                /\ bus_ret.n >= 1
                /\ Len(ring) = BusCapacity
                /\ rx_next = tail - Len(ring)
                /\ bus_ret.prev # <<>> =>
                      skipped = ring[1] - bus_ret.prev[1] - 1
                /\ ENABLED RxForward(TRUE)
          /\ (bus_ret.op = "forward" /\ bus_ret.prev # <<>>) =>
                /\ bus_ret.event[1] > bus_ret.prev[1]
                /\ \A i \in 1..Len(ring) :
                      ~(bus_ret.prev[1] < ring[i]
                        /\ ring[i] < bus_ret.event[1])
                /\ \E i \in 1..Len(ring) : ring[i] = bus_ret.event[1])
    /\ [][(bus_ret'.op = "forward" /\ rx_last # <<>>) =>
             bus_ret'.event[1] = rx_last[1] + skipped + 1]_vars

\* The subscriber is forwarded an event after a lag: events sent between it
\* and the one forwarded before were skipped.
C31_Witness ==
    /\ bus_ret.op = "forward"
    /\ bus_ret.prev # <<>>
    /\ bus_ret.event[1] > bus_ret.prev[1] + 1
    /\ rx_state = "open"

\* The receiver has just reported Lagged.
C31_LaggedWitness == bus_ret.op = "lagged" /\ bus_ret.n >= 1

\* C32: sending an event never makes the pump wait and never ends it,
\* neither for a subscriber that lags nor without any subscriber.  The pump
\* task is always running and its next send can always be taken, whatever
\* the state of the subscriber and however far its receiver is behind; each
\* send is the pump's next event, sent or lost.
C32_PublishNeverBlocks ==
    /\ pump_alive
    /\ (IF rx_state = "open" THEN tail < MaxStored
                             ELSE unheard < MaxUnheard) => ENABLED Publish
    /\ bus_ret.op \in {"send", "send_lost"} =>
          /\ bus_ret.event = <<emitted - 1>>
          /\ bus_ret.op = "send_lost" <=> rx_state # "open"

\* The pump has sent an event into a full channel whose subscriber has not
\* read the oldest retained event.
C32_Witness ==
    /\ bus_ret.op = "send"
    /\ Len(ring) = BusCapacity
    /\ rx_state = "open"
    /\ rx_next < tail - Len(ring)
    /\ tail < MaxStored

\* The pump has sent two events in a row that nobody received.
C32_NoSubscriberWitness ==
    bus_ret.op = "send_lost" /\ unheard >= 2 /\ rx_state = "none"

\* C33: when the port cannot be bound the process ends with a failure and
\* goes no further.  Main never returns Ok after the bind has failed, and
\* from the failure on main takes no step other than returning the error:
\* no status, no load, no capture, no transcription.
C33_BindFailureEndsProcess ==
    /\ [](ws_pc = "failed" => drv_pc # "down")
    /\ [][(ws_pc = "failed") =>
             /\ drv_pc' \in {drv_pc, "exit"}
             /\ UNCHANGED <<statuses, engineVars, stream, dec_pc>>]_vars

\* The bind has failed and the session is transcribing a window all the
\* same, on a loaded model and with the capture running.
C33_TranscribingUnboundWitness ==
    /\ ws_pc = "failed"
    /\ is_loaded(EngSelf)
    /\ stream = "Some"
    /\ dec_pc = "loop"

\* The bind has failed and main has returned Ok.
C33_CleanExitUnboundWitness == ws_pc = "failed" /\ drv_pc = "down"

\* C34: between the operations of the accumulator, has_speech = false
\* implies that accumulated is empty.
C34_NoSpeechNothingAccumulated == ~has_speech => accumulated = <<>>

\* C35: between the operations of the accumulator, accumulated holds at
\* most max_samples samples.
C35_AccumulatedAtMostMax == Len(accumulated) <= max_samples

\* C36: the events of distinct windows do not interleave.  A transcription
\* runs only on the window the pump holds; the events of a window are
\* partials followed by at most one final or error event, after which the
\* window is over (nothing decoding, the pump holds no window); events are
\* only added one at a time to those of the window the pump holds; and the
\* pump takes the next chunk from the channel, which alone can start the
\* next window, only when no transcription runs and it holds no window.
C36_WindowsDoNotInterleave ==
    /\ [](/\ dec_pc # "idle" => audio_buffer # <<>>
          /\ \A i \in 1..(Len(events) - 1) :
                events[i].msg_type = "transcript" /\ ~events[i].is_final
          /\ (Finals \cup Errors) # {} =>
                (audio_buffer = <<>> /\ dec_pc = "idle"))
    /\ [][/\ (events' # events /\ events' # <<>>) =>
                /\ audio_buffer # <<>>
                /\ Len(events') = Len(events) + 1
                /\ SubSeq(events', 1, Len(events)) = events
          /\ Len(chan') < Len(chan) =>
                (dec_pc = "idle" /\ audio_buffer = <<>>)
          /\ (audio_buffer = <<>> /\ audio_buffer' # <<>>) =>
                (Len(chan') < Len(chan) /\ events' = <<>>)]_vars

\* A window is sending partials after the pump has handled an earlier
\* window to the end.
C36_Witness ==
    /\ windows >= 1
    /\ dec_pc = "loop"
    /\ events # <<>>
    /\ audio_buffer # <<>>

\* C37: the callback conserves samples.  The mono frames received are the
\* samples that have left the buffer plus the samples in it; the buffer
\* holds the frames that follow those, in arrival order; every chunk the
\* callback emits, delivered or dropped, holds the frames that follow the
\* ones that left the buffer before it, in arrival order, so no frame is
\* emitted twice or skipped; and samples leave the buffer only in an emitted
\* chunk, or with the buffer when its stream is dropped.
C37_SampleConservation ==
    /\ [](/\ frames_in = consumed + Len(buf)
          /\ buf = [i \in 1..Len(buf) |-> consumed + i]
          /\ cap_ret.op = "send" =>
                cap_ret.chunk.samples =
                   [i \in 1..buffer_size |-> consumed - buffer_size + i])
    /\ [][consumed' # consumed =>
             \/ /\ cap_ret'.op = "send"
                /\ consumed' = consumed + Len(cap_ret'.chunk.samples)
                /\ Len(buf') = Len(buf) - Len(cap_ret'.chunk.samples)
             \/ /\ stream = "Some"
                /\ stream' = "None"]_vars

\* The callback has emitted a chunk that was dropped, with chunks delivered
\* before it and a sample left in the buffer.
C37_Witness ==
    /\ cap_ret.op = "send"
    /\ ~cap_ret.ok
    /\ chan # <<>>
    /\ buf # <<>>
    /\ consumed > buffer_size

\* C38: while a chunk of at least 38 positions is decoded, the positions
\* forwarded through the decoder with the cache, the 38 of the prefill and
\* one for each pass of the loop, never exceed the seq_len positions the
\* cache was allocated for, and every index the loop uses into the
\* pre-sliced audio positions is one of the seq_len - 38 that exist.
C38_CacheAndSlicesInBounds ==
    dec_pc = "loop" =>
       /\ seq_len >= PREFIX_LEN
       /\ cache_len = PREFIX_LEN + (Len(generated) - PREFIX_LEN - 1)
       /\ cache_len <= seq_len
       /\ slice_idx # <<>> =>
             (slice_idx[1] >= 0 /\ slice_idx[1] < seq_len - PREFIX_LEN
              /\ slice_idx[1] \in AudioSlices(seq_len))

\* The loop has run to its end on the longest chunk: the cache holds all
\* positions but one and the last slice but one was used.
C38_Witness ==
    /\ dec_pc = "loop"
    /\ seq_len = PREFIX_LEN + 1 + MaxDecodeSteps
    /\ pos = seq_len
    /\ cache_len = seq_len - 1
    /\ slice_idx = <<seq_len - PREFIX_LEN - 2>>

\* A chunk of exactly 38 positions: the prefill alone fills the cache.
C38_PrefillOnlyWitness ==
    dec_pc = "loop" /\ seq_len = PREFIX_LEN /\ cache_len = seq_len

\* C39: the text-token list built token by token for the partials is, all
\* through the decode loop and so at its end, the list of the tokens
\* generated after the 38-token prefix that are text tokens (>= 1000), in
\* the same order; each decode attempt for a partial is handed that list as
\* it then is, and the final decode of the chunk is handed the list the
\* loop ended with.
C39_IncrementalEqualsFiltered ==
    /\ [](dec_pc = "loop" =>
             /\ text_token_ids = FinalTokens(generated)
             /\ text_token_ids =
                   SelectSeq(SubSeq(generated, PREFIX_LEN + 1, Len(generated)),
                             LAMBDA t : t >= TEXT_TOKEN_OFFSET)
             /\ (dec_ret.op \in {"chunk_start", "decode_step"}
                 /\ dec_ret.handed # <<>>) =>
                   dec_ret.handed = <<text_token_ids>>)
    /\ [][dec_ret'.op = "chunk_end" =>
             dec_ret'.handed = <<text_token_ids>>]_vars

\* The loop has ended on a chunk whose generated tokens are text tokens
\* with a control token among them.
C39_Witness ==
    /\ dec_pc = "loop"
    /\ pos = seq_len
    /\ Len(text_token_ids) >= 2
    /\ Len(text_token_ids) < Len(generated) - PREFIX_LEN
    /\ generated[PREFIX_LEN + 2] = STREAMING_PAD

====
